---- MODULE Spec2Model ----
(***************************************************************************)
(* Model of doug, a command-line time tracker (src/src/lib.rs).            *)
(*                                                                         *)
(* The state is one Doug instance (its in-memory Vec<Period>), the data    *)
(* file periods.json, the backup file periods.json-backup and the clock.   *)
(* Every public method of Doug is one action; the trailing self.save() of  *)
(* a method is part of the method's action.                                *)
(***************************************************************************)
EXTENDS Integers, Sequences, FiniteSets, TLC

\* ------------------------------------------------------------------ bounds
MaxLen == 2          \* most periods the instance is grown to
MaxTime == 1         \* last value of the clock
MaxFaults == 1       \* most calls of save that fail in one run
TicksPerDay == 2     \* clock values in one calendar day
QueryNow == 201      \* the clock when a query is made on a drawn store
MaxPast == 1         \* greatest value of a past_* argument of report
MaxInstant == 4      \* last instant of the times add_interval is tried on
MaxHours == 25       \* last hour of the durations format::duration is tried on

Projects == {"a", "b"}

\* ------------------------------------------------------------ Option<T>
None == <<>>
Some(x) == <<x>>
is_some(o) == o # None
is_none(o) == o = None
unwrap(o) == o[1]

\* ------------------------------------------------------------ Vec helpers
Last(s) == s[Len(s)]
Front(s) == SubSeq(s, 1, Len(s) - 1)

RECURSIVE Filter(_, _)
\* the elements of ps whose project is not project_name, in order
Filter(ps, project_name) ==
    IF ps = <<>> THEN <<>>
    ELSE IF Head(ps).project = project_name
         THEN Filter(Tail(ps), project_name)
         ELSE <<Head(ps)>> \o Filter(Tail(ps), project_name)

\* ------------------------------------------------------------ Period
\* Period::new: an open period that starts at the current time
PeriodNew(project, t) ==
    [project |-> project, start_time |-> t, end_time |-> None]

\* ------------------------------------------------------------ errors
\* The Err(String) values of lib.rs, under the names the specification
\* gives to the error kinds.
Ok == "Ok"
AlreadyTrackingError == "AlreadyTrackingError"   \* "project {} is being tracked"
NothingTrackedError == "NothingTrackedError"     \* "No project started"
NoHistoryError == "NoHistoryError"               \* "No previous project to restart"
ProjectNotFoundError == "ProjectNotFoundError"   \* "Project not found."
DateParseError == "DateParseError"               \* "Couldn't parse date {}"
NoPeriodError == "NoPeriodError"                 \* "no period to edit"
EditorError == "EditorError"                     \* "Couldn't open editor"
IOError == "IOError"                             \* the errors of save

\* What a method did before its save: the result so far, the in-memory
\* sequence it leaves, and whether it goes on to call self.save().
Outcome(res, ps, saves) == [res |-> res, periods |-> ps, save |-> saves]

\* ------------------------------------------------------------ the clock
\* Utc::now(): timestamps are whole ticks, TicksPerDay of them in a day.
Times == 0 .. MaxTime

\* ------------------------------------------------------------ dates of edit
\* The humanized date strings handed to chrono_english::parse_date_string:
\* one that parses (a time of day of the current day) and one that does not.
DateSpecs == {"today 0:00", "garbage"}

\* parse_date_string(s, Local::now(), Dialect::Us) followed by
\* with_timezone(&Utc): Some(time) or None for a parse error.
parse_date_string(s, t) ==
    IF s = "today 0:00" THEN Some(t - (t % TicksPerDay)) ELSE None

\* ------------------------------------------------------------ JSON
\* The data file is a sequence of JSON lexemes: the opening bracket, one
\* lexeme per object of the array, the closing bracket. serde_json::to_string
\* writes a Vec<Period> as an array of objects; in an object a timestamp is
\* written as a string and an absent end_time as null.
ArrayOpen == <<"[">>
ArrayClose == <<"]">>

time_to_json(t) == ToString(t)
time_from_json(s) ==
    IF \E t \in Times : ToString(t) = s
    THEN Some(CHOOSE t \in Times : ToString(t) = s)
    ELSE None

\* a serialization that writes every period as a running one
period_to_json_drops_end(p) ==
    << p.project, time_to_json(p.start_time), "null" >>

period_to_json(p) ==
    << p.project, time_to_json(p.start_time),
       IF is_none(p.end_time) THEN "null" ELSE time_to_json(unwrap(p.end_time)) >>

\* serde_json::to_string(&self.periods)
to_string(ps) ==
    <<ArrayOpen>> \o [i \in 1 .. Len(ps) |-> period_to_json(ps[i])] \o <<ArrayClose>>

\* The result of serde_json::from_reader: Ok(value), an error with is_eof(),
\* or another (syntax or data) error.
ParseOk(v) == [kind |-> "ok", value |-> v]
ParseEof == [kind |-> "eof", value |-> <<>>]
ParseSyntax == [kind |-> "syntax", value |-> <<>>]

\* an object lexeme that holds the three fields of a Period
is_period_json(tok) ==
    /\ Len(tok) = 3
    /\ is_some(time_from_json(tok[2]))
    /\ tok[3] = "null" \/ is_some(time_from_json(tok[3]))

period_from_json(tok) ==
    [project |-> tok[1],
     start_time |-> unwrap(time_from_json(tok[2])),
     end_time |-> IF tok[3] = "null" THEN None
                  ELSE Some(unwrap(time_from_json(tok[3])))]

\* serde_json::from_reader::<Vec<Period>>(data_file): the array must open,
\* hold objects that are periods, and close; input that ends before the
\* array is closed is an end-of-file error.
from_reader(toks) ==
    LET n == Len(toks)
        bad == { i \in 1 .. n :
                   \/ i = 1 /\ toks[i] # ArrayOpen
                   \/ i > 1 /\ toks[i] # ArrayClose /\ ~ is_period_json(toks[i])
                   \/ i > 1 /\ i < n /\ toks[i] = ArrayClose }
    IN  IF bad # {} THEN ParseSyntax
        ELSE IF n < 2 \/ toks[n] # ArrayClose THEN ParseEof
        ELSE ParseOk([i \in 1 .. (n - 2) |-> period_from_json(toks[i + 1])])

\* The proper prefixes of a content: what a failed write_all can leave in
\* the file it has just truncated.
ProperPrefixes(toks) == { SubSeq(toks, 1, n) : n \in 0 .. (Len(toks) - 1) }

\* ------------------------------------------------------------ the methods
\* Each method as a function of the in-memory sequence ps, its arguments and
\* the current time t, up to (not including) its call of self.save().

\* start without its test for a running period
start_unguarded(ps, project_name, t) ==
    Outcome(Ok, Append(ps, PeriodNew(project_name, t)), TRUE)

\* start that puts the new period in front of the others
start_pushes_front(ps, project_name, t) ==
    IF ps # <<>> /\ is_none(Last(ps).end_time)
    THEN Outcome(AlreadyTrackingError, ps, FALSE)
    ELSE Outcome(Ok, <<PeriodNew(project_name, t)>> \o ps, TRUE)

\* Doug::start
start(ps, project_name, t) ==
    IF ps # <<>> /\ is_none(Last(ps).end_time)
    THEN Outcome(AlreadyTrackingError, ps, FALSE)
    ELSE Outcome(Ok, Append(ps, PeriodNew(project_name, t)), TRUE)

\* amend that renames every period of the running project
amend_renames_all(ps, project_name) ==
    IF ps = <<>> THEN Outcome(NothingTrackedError, ps, FALSE)
    ELSE IF is_none(Last(ps).end_time)
         THEN Outcome(Ok,
                      [i \in 1 .. Len(ps) |->
                          IF ps[i].project = Last(ps).project
                          THEN [ps[i] EXCEPT !.project = project_name]
                          ELSE ps[i]],
                      TRUE)
         ELSE Outcome(NothingTrackedError, Front(ps), FALSE)

\* Doug::amend: the last period is popped, and pushed back only when open
amend(ps, project_name) ==
    IF ps = <<>> THEN Outcome(NothingTrackedError, ps, FALSE)
    ELSE IF is_none(Last(ps).end_time)
         THEN Outcome(Ok,
                      Append(Front(ps), [Last(ps) EXCEPT !.project = project_name]),
                      TRUE)
         ELSE Outcome(NothingTrackedError, Front(ps), FALSE)

\* delete that keeps a running period of the project
delete_keeps_open(ps, project_name) ==
    IF \A i \in 1 .. Len(ps) : ps[i].project # project_name
    THEN Outcome(ProjectNotFoundError, ps, FALSE)
    ELSE Outcome(Ok,
                 IF is_none(Last(ps).end_time)
                 THEN Append(Filter(Front(ps), project_name), Last(ps))
                 ELSE Filter(ps, project_name),
                 TRUE)

\* delete that stores the filtered sequence before it reports a miss
delete_saves_first(ps, project_name) ==
    IF \A i \in 1 .. Len(ps) : ps[i].project # project_name
    THEN Outcome(ProjectNotFoundError, Filter(ps, project_name), TRUE)
    ELSE Outcome(Ok, Filter(ps, project_name), TRUE)

\* Doug::delete
delete(ps, project_name) ==
    IF \A i \in 1 .. Len(ps) : ps[i].project # project_name
    THEN Outcome(ProjectNotFoundError, ps, FALSE)
    ELSE Outcome(Ok, Filter(ps, project_name), TRUE)

\* restart without its test that the last period has ended
restart_unguarded(ps, t) ==
    IF ps = <<>> THEN Outcome(NoHistoryError, ps, FALSE)
    ELSE Outcome(Ok, Append(ps, PeriodNew(Last(ps).project, t)), TRUE)

\* Doug::restart
restart(ps, t) ==
    IF ps = <<>> THEN Outcome(NoHistoryError, ps, FALSE)
    ELSE IF is_some(Last(ps).end_time)
         THEN Outcome(Ok, Append(ps, PeriodNew(Last(ps).project, t)), TRUE)
         ELSE Outcome(AlreadyTrackingError, ps, FALSE)

\* cancel without its test that the popped period is running
cancel_unguarded(ps) ==
    IF ps = <<>> THEN Outcome(NothingTrackedError, ps, FALSE)
    ELSE Outcome(Ok, Front(ps), TRUE)

\* cancel that saves without having removed the period
cancel_keeps_last(ps) ==
    IF ps = <<>> THEN Outcome(NothingTrackedError, ps, FALSE)
    ELSE IF is_none(Last(ps).end_time)
         THEN Outcome(Ok, ps, TRUE)
         ELSE Outcome(NothingTrackedError, Front(ps), FALSE)

\* Doug::cancel: the last period is popped whatever it is
cancel(ps) ==
    IF ps = <<>> THEN Outcome(NothingTrackedError, ps, FALSE)
    ELSE IF is_none(Last(ps).end_time)
         THEN Outcome(Ok, Front(ps), TRUE)
         ELSE Outcome(NothingTrackedError, Front(ps), FALSE)

\* stop that does not push the stopped period back
stop_drops_period(ps, t) ==
    IF ps = <<>> THEN Outcome(NothingTrackedError, ps, FALSE)
    ELSE IF is_none(Last(ps).end_time)
         THEN Outcome(Ok, Front(ps), TRUE)
         ELSE Outcome(NothingTrackedError, Front(ps), FALSE)

\* Doug::stop: the last period is popped, and pushed back only when open
stop(ps, t) ==
    IF ps = <<>> THEN Outcome(NothingTrackedError, ps, FALSE)
    ELSE IF is_none(Last(ps).end_time)
         THEN Outcome(Ok,
                      Append(Front(ps), [Last(ps) EXCEPT !.end_time = Some(t)]),
                      TRUE)
         ELSE Outcome(NothingTrackedError, Front(ps), FALSE)

\* Doug::edit, the block of the start argument (an Option<&str>)
edit_start(ps, start_arg, t) ==
    IF is_none(start_arg) THEN Outcome(Ok, ps, FALSE)
    ELSE IF is_none(parse_date_string(unwrap(start_arg), t))
         THEN Outcome(DateParseError, ps, FALSE)
    ELSE IF ps = <<>> THEN Outcome(NoPeriodError, ps, FALSE)
    ELSE Outcome(Ok,
                 [ps EXCEPT ![Len(ps)].start_time =
                      unwrap(parse_date_string(unwrap(start_arg), t))],
                 TRUE)

\* the end block writing the parsed time to start_time
edit_end_sets_start(ps, end_arg, t) ==
    IF is_none(end_arg) THEN Outcome(Ok, ps, FALSE)
    ELSE IF is_none(parse_date_string(unwrap(end_arg), t))
         THEN Outcome(DateParseError, ps, FALSE)
    ELSE IF ps = <<>> THEN Outcome(NoPeriodError, ps, FALSE)
    ELSE Outcome(Ok,
                 [ps EXCEPT ![Len(ps)].start_time =
                      unwrap(parse_date_string(unwrap(end_arg), t))],
                 TRUE)

\* Doug::edit, the block of the end argument
edit_end(ps, end_arg, t) ==
    IF is_none(end_arg) THEN Outcome(Ok, ps, FALSE)
    ELSE IF is_none(parse_date_string(unwrap(end_arg), t))
         THEN Outcome(DateParseError, ps, FALSE)
    ELSE IF ps = <<>> THEN Outcome(NoPeriodError, ps, FALSE)
    ELSE Outcome(Ok,
                 [ps EXCEPT ![Len(ps)].end_time =
                      Some(unwrap(parse_date_string(unwrap(end_arg), t)))],
                 TRUE)

\* Doug::edit with at least one argument: the start block, then the end
\* block on what the start block left, then the save
edit(ps, start_arg, end_arg, t) ==
    LET s == edit_start(ps, start_arg, t)
        e == edit_end(s.periods, end_arg, t)
    IN  IF s.res # Ok THEN s
        ELSE IF e.res # Ok THEN e
        ELSE Outcome(Ok, e.periods, is_some(start_arg) \/ is_some(end_arg))

\* ------------------------------------------------------------ the files
\* How a call of Doug::save ends: every step succeeds, or fs::copy, the
\* truncating open, or write_all fails.
SaveOutcomes == {"ok", "copy_failed", "open_failed", "write_failed"}

\* save that reports success when write_all has failed
save_hides_write_error(ps, d, b, io, written) ==
    CASE io = "copy_failed" -> [res |-> IOError, disk |-> d, backup |-> b]
      [] io = "open_failed" -> [res |-> IOError, disk |-> d, backup |-> Some(d)]
      [] io = "write_failed" -> [res |-> Ok, disk |-> written, backup |-> Some(d)]
      [] OTHER -> [res |-> Ok, disk |-> to_string(ps), backup |-> Some(d)]

\* save that copies the data file to the backup after it has written it
save_copies_last(ps, d, b, io, written) ==
    CASE io = "copy_failed" -> [res |-> IOError, disk |-> to_string(ps), backup |-> b]
      [] io = "open_failed" -> [res |-> IOError, disk |-> d, backup |-> b]
      [] io = "write_failed" -> [res |-> IOError, disk |-> written, backup |-> b]
      [] OTHER -> [res |-> Ok, disk |-> to_string(ps), backup |-> Some(to_string(ps))]

\* Doug::save: [res, disk, backup] after saving ps over the data file d and
\* the backup b (None while there is no backup file) when the call ends as
\* io, with written what a failed write_all left in the truncated file.
save(ps, d, b, io, written) ==
    CASE io = "copy_failed" -> [res |-> IOError, disk |-> d, backup |-> b]
      [] io = "open_failed" -> [res |-> IOError, disk |-> d, backup |-> Some(d)]
      [] io = "write_failed" -> [res |-> IOError, disk |-> written, backup |-> Some(d)]
      [] OTHER -> [res |-> Ok, disk |-> to_string(ps), backup |-> Some(d)]

\* Every way a call of save on ps over the files (d, b) can end when its
\* steps may end as the outcomes in ios.
SaveResults(ps, d, b, ios) ==
    { save(ps, d, b, io, <<>>) : io \in ios \ {"write_failed"} }
    \cup { save(ps, d, b, io, w) :
             io \in ios \cap {"write_failed"}, w \in ProperPrefixes(to_string(ps)) }

\* a file system that does not fail, and one that may
Reliable == {"ok"}
Faulty == SaveOutcomes

\* ------------------------------------------------------------ settings.rs
\* A folder is its path, a sequence of characters. Home is the settings
\* folder, which is also the data location of a new settings file; the other
\* folders have a shorter and a longer path.
Home == <<"/", "h", "o">>
OtherDirs == { <<"/", "n">>, <<"/", "n", "e", "w">> }
Dirs == {Home} \cup OtherDirs

\* serde_json::to_string(&Settings): the bytes before the path, the
\* characters of the path, and the bytes after it
SettingsOpen == "{\"data_location\":\""
SettingsClose == "\"}"
settings_to_string(location) == <<SettingsOpen>> \o location \o <<SettingsClose>>

\* write_all on a file opened without truncate, at its start: the bytes
\* replace as many bytes of the old content, and what the old content has
\* beyond them stays
write_all(content, bytes) ==
    bytes \o SubSeq(content, Len(bytes) + 1, Len(content))

\* serde_json::from_reader::<Settings>: the value, an end-of-file error for
\* an empty or unfinished content, a syntax error for any other content, in
\* particular for characters after the value
settings_from_reader(content) ==
    IF content = <<>> THEN ParseEof
    ELSE IF content[1] # SettingsOpen THEN ParseSyntax
    ELSE LET closes == { k \in 2 .. Len(content) : content[k] = SettingsClose }
         IN  IF closes = {} THEN ParseEof
             ELSE LET k == CHOOSE c \in closes : \A d \in closes : c <= d
                  IN  IF k < Len(content) THEN ParseSyntax
                      ELSE ParseOk(SubSeq(content, 2, k - 1))

\* how the open of the settings file can end
SettingsOutcomes == {"ok", "open_failed"}

\* Settings::save of the value with data_location location over the
\* settings file content: the result and the file after it
settings_save(location, content, io) ==
    IF io = "open_failed" THEN [res |-> IOError, file |-> content]
    ELSE [res |-> Ok, file |-> write_all(content, settings_to_string(location))]

\* Settings::new(folder) on the settings file content: the result, the
\* value loaded and the file after it; an empty file gives the settings of
\* the folder itself, which are saved; anything else in the file is an error
settings_new(folder, content, io) ==
    LET r == settings_from_reader(content)
    IN  IF io = "open_failed"
        THEN [res |-> IOError, data_location |-> folder, file |-> content]
        ELSE CASE r.kind = "ok" ->
                    [res |-> Ok, data_location |-> r.value, file |-> content]
               [] r.kind = "eof" ->
                    LET sv == settings_save(folder, content, io)
                    IN  [res |-> sv.res, data_location |-> folder, file |-> sv.file]
               [] OTHER ->
                    [res |-> "ParseError", data_location |-> folder, file |-> content]

\* ------------------------------------------------------------ the state
VARIABLES
    periods,    \* Doug.periods, the in-memory Vec<Period>
    disk,       \* content of periods.json (a lexeme sequence, <<>> when empty)
    backup,     \* periods.json-backup: None until the first copy, then Some(content)
    now,        \* the clock, Utc::now()
    op,         \* the method called last on the instance
    res,        \* what that call returned: Ok or the kind of its error
    call,       \* that call's arguments, the instance and the data file it
                \* found, and whether it called save
    faults,     \* how many calls of save have failed so far
    message,    \* the text a query (status, report) returned: None for
                \* Ok(None); the texts of the other methods are not kept
    data_location,  \* Doug.settings.data_location, the folder of periods.json
    settings_json,  \* content of settings.json in the settings folder Home
    folders     \* for every other folder, its periods.json and its
                \* periods.json-backup: None while the file does not exist

vars == <<periods, disk, backup, now, op, res, call, faults, message,
          data_location, settings_json, folders>>

\* the settings and the other folders
settings_vars == <<data_location, settings_json, folders>>

\* The settings after Doug::new on a fresh settings folder: Settings::new
\* has saved the settings of the folder itself, and no other folder has a
\* data file.
SettingsInit ==
    /\ data_location = Home
    /\ settings_json = settings_to_string(Home)
    /\ folders = [d \in OtherDirs |-> [data |-> None, backup |-> None]]

\* the record of a call
Call(project, start_arg, end_arg, saved) ==
    [project |-> project, start_arg |-> start_arg, end_arg |-> end_arg,
     pre |-> periods, preDisk |-> disk, saved |-> saved]

\* the record when the last step was no call of a method
NoCall ==
    [project |-> "", start_arg |-> None, end_arg |-> None,
     pre |-> <<>>, preDisk |-> <<>>, saved |-> FALSE]

\* Doug::new on a fresh folder: the data file is created empty and read
Init ==
    /\ periods = <<>>
    /\ disk = <<>>
    /\ backup = None
    /\ now = 0
    /\ op = "new"
    /\ res = Ok
    /\ call = NoCall
    /\ faults = 0
    /\ message = None
    /\ SettingsInit

\* A method that did out before its save: the save (if it is reached) and
\* the result of the whole call. The in-memory sequence keeps what the
\* method did whether or not the save succeeds.
Apply(name, project, start_arg, end_arg, out, ios) ==
    /\ op' = name
    /\ call' = Call(project, start_arg, end_arg, out.save)
    /\ periods' = out.periods
    /\ now' = now
    /\ message' = None
    /\ UNCHANGED settings_vars
    /\ IF out.save
       THEN \E sv \in SaveResults(out.periods, disk, backup,
                                   IF faults < MaxFaults THEN ios ELSE Reliable) :
               /\ disk' = sv.disk
               /\ backup' = sv.backup
               /\ res' = sv.res
               /\ faults' = IF sv.res = Ok THEN faults ELSE faults + 1
       ELSE /\ UNCHANGED <<disk, backup, faults>>
            /\ res' = out.res

\* ------------------------------------------------------------ the actions
\* the clock advances between two calls
Tick ==
    /\ now < MaxTime
    /\ now' = now + 1
    /\ op' = "tick"
    /\ res' = Ok
    /\ call' = NoCall
    /\ message' = None
    /\ UNCHANGED settings_vars
    /\ UNCHANGED <<periods, disk, backup, faults>>

\* Doug::new on the same folder (the next invocation of the program): the
\* data file is read; an end-of-file error gives the empty store, any other
\* error fails the construction and the instance stays as it is.
New ==
    LET r == from_reader(disk)
    IN  /\ op' = "new"
        /\ periods' = CASE r.kind = "ok" -> r.value
                        [] r.kind = "eof" -> <<>>
                        [] OTHER -> periods
        /\ res' = IF r.kind = "syntax" THEN "ParseError" ELSE Ok
        /\ call' = NoCall
        /\ message' = None
        /\ UNCHANGED settings_vars
        /\ UNCHANGED <<disk, backup, now, faults>>

Start(project_name, ios) ==
    /\ Len(periods) < MaxLen
    /\ Apply("start", project_name, None, None,
             start(periods, project_name, now), ios)

Amend(project_name, ios) ==
    Apply("amend", project_name, None, None, amend(periods, project_name), ios)

Delete(project_name, ios) ==
    Apply("delete", project_name, None, None, delete(periods, project_name), ios)

Restart(ios) ==
    /\ Len(periods) < MaxLen
    /\ Apply("restart", "", None, None, restart(periods, now), ios)

Cancel(ios) ==
    Apply("cancel", "", None, None, cancel(periods), ios)

Stop(ios) ==
    Apply("stop", "", None, None, stop(periods, now), ios)

\* Doug::edit with at least one of its arguments
Edit(start_arg, end_arg, ios) ==
    /\ is_some(start_arg) \/ is_some(end_arg)
    /\ Apply("edit", "", start_arg, end_arg,
             edit(periods, start_arg, end_arg, now), ios)

\* edit with no argument that saves the instance as edit with an argument does
EditNoArgs_saves ==
    Apply("edit", "", None, None, Outcome(Ok, periods, TRUE), Reliable)

\* Doug::edit with no argument: $EDITOR is started on the data file, or the
\* call fails when the variable is not set; the instance is not touched.
EditNoArgs ==
    /\ op' = "edit"
    /\ res' \in {Ok, EditorError}
    /\ call' = Call("", None, None, FALSE)
    /\ message' = None
    /\ UNCHANGED settings_vars
    /\ UNCHANGED <<periods, disk, backup, now, faults>>

DateArgs == {None} \cup { Some(s) : s \in DateSpecs }

\* the calls on a file system that does not fail
Next ==
    \/ Tick
    \/ New
    \/ \E p \in Projects : Start(p, Reliable)
    \/ \E p \in Projects : Amend(p, Reliable)
    \/ \E p \in Projects : Delete(p, Reliable)
    \/ Restart(Reliable)
    \/ Cancel(Reliable)
    \/ Stop(Reliable)
    \/ \E s \in DateArgs, e \in DateArgs : Edit(s, e, Reliable)
    \/ EditNoArgs

Spec == Init /\ [][Next]_vars

\* the calls when at most MaxFaults calls of save fail
NextIO ==
    \/ Tick
    \/ New
    \/ \E p \in Projects : Start(p, Faulty)
    \/ \E p \in Projects : Amend(p, Faulty)
    \/ \E p \in Projects : Delete(p, Faulty)
    \/ Restart(Faulty)
    \/ Cancel(Faulty)
    \/ Stop(Faulty)
    \/ \E s \in DateArgs, e \in DateArgs : Edit(s, e, Faulty)
    \/ EditNoArgs

SpecIO == Init /\ [][NextIO]_vars

\* ------------------------------------------------------------ a killed call
\* Where the process can be when it is killed inside Doug::save: before
\* fs::copy, after it, after the truncating open, inside write_all, or after
\* write_all.
KillPoints == {"before_copy", "after_copy", "after_truncate", "in_write", "after_write"}

\* the two files when a save of ps over (d, b) is killed at the point at,
\* with written what write_all had put into the file by then
save_killed(ps, d, b, at, written) ==
    CASE at = "before_copy" -> [disk |-> d, backup |-> b]
      [] at = "after_copy" -> [disk |-> d, backup |-> Some(d)]
      [] at = "after_truncate" -> [disk |-> <<>>, backup |-> Some(d)]
      [] at = "in_write" -> [disk |-> written, backup |-> Some(d)]
      [] OTHER -> [disk |-> to_string(ps), backup |-> Some(d)]

KilledResults(ps, d, b) ==
    { save_killed(ps, d, b, at, <<>>) : at \in KillPoints \ {"in_write"} }
    \cup { save_killed(ps, d, b, "in_write", w) : w \in ProperPrefixes(to_string(ps)) }

Killed == "Killed"

\* what the methods that can run on the instance do before their save
Outcomes ==
    { start(periods, p, now) : p \in Projects }
    \cup { amend(periods, p) : p \in Projects }
    \cup { delete(periods, p) : p \in Projects }
    \cup { restart(periods, now), cancel(periods), stop(periods, now) }
    \cup { edit(periods, s, e, now) : s \in DateArgs, e \in DateArgs }

\* A call of a method is killed while it is in its save: the files stay as
\* the kill found them and the process is gone; periods keeps the sequence
\* the call was saving.
KilledInSave ==
    /\ faults < MaxFaults
    /\ \E o \in Outcomes :
          /\ o.save
          /\ Len(o.periods) <= MaxLen
          /\ periods' = o.periods
          /\ \E k \in KilledResults(o.periods, disk, backup) :
                disk' = k.disk /\ backup' = k.backup
    /\ op' = "killed"
    /\ res' = Killed
    /\ call' = Call("", None, None, TRUE)
    /\ faults' = faults + 1
    /\ message' = None
    /\ UNCHANGED settings_vars
    /\ now' = now

\* the process is running
Alive == res # Killed

\* the calls on a file system that does not fail, by invocations of which at
\* most MaxFaults are killed in their save; after a kill the next step is
\* the next invocation's Doug::new
NextKill ==
    \/ Alive /\ Tick
    \/ New
    \/ Alive /\ \E p \in Projects : Start(p, Reliable)
    \/ Alive /\ \E p \in Projects : Amend(p, Reliable)
    \/ Alive /\ \E p \in Projects : Delete(p, Reliable)
    \/ Alive /\ Restart(Reliable)
    \/ Alive /\ Cancel(Reliable)
    \/ Alive /\ Stop(Reliable)
    \/ Alive /\ \E s \in DateArgs, e \in DateArgs : Edit(s, e, Reliable)
    \/ Alive /\ EditNoArgs
    \/ Alive /\ KilledInSave

SpecKill == Init /\ [][NextKill]_vars

\* ------------------------------------------------------------ formatting
\* chrono's Duration::num_minutes and num_hours truncate towards zero, and
\* the % of Rust takes the sign of the dividend
trunc_div(a, b) == IF a >= 0 THEN a \div b ELSE - ((- a) \div b)
rem(a, b) == a - b * trunc_div(a, b)

\* the {:>2} of format!: the number right-aligned in two columns
pad2(n) == IF n >= 0 /\ n < 10 THEN " " \o ToString(n) ELSE ToString(n)

\* duration with {} in the place of {:>2}
duration_no_padding(secs) ==
    LET hours == trunc_div(secs, 3600)
        minutes == rem(trunc_div(secs, 60), 60)
        seconds == rem(secs, 60)
    IN  IF trunc_div(secs, 60) = 0 THEN ToString(seconds) \o "s"
        ELSE IF hours = 0
             THEN ToString(minutes) \o "m " \o ToString(seconds) \o "s"
        ELSE ToString(hours) \o "h " \o ToString(minutes) \o "m " \o ToString(seconds) \o "s"

\* format::duration of a duration of secs seconds
duration(secs) ==
    LET hours == trunc_div(secs, 3600)
        minutes == rem(trunc_div(secs, 60), 60)
        seconds == rem(secs, 60)
    IN  IF trunc_div(secs, 60) = 0 THEN ToString(seconds) \o "s"
        ELSE IF hours = 0
             THEN ToString(minutes) \o "m " \o pad2(seconds) \o "s"
        ELSE ToString(hours) \o "h " \o pad2(minutes) \o "m " \o pad2(seconds) \o "s"

\* the seconds of d ticks of the clock
Seconds(d) == d * (86400 \div TicksPerDay)

\* format::datetime, "%F %H:%M" in a local time zone that is UTC: the
\* number of the day and the tick of the day
datetime(t) == ToString(t \div TicksPerDay) \o " " \o ToString(t % TicksPerDay)

\* ------------------------------------------------------------ the queries
\* a DougResult: Ok or the kind of the error, and the Option<String> of Ok
Result(r, text) == [res |-> r, message |-> text]

\* status that fails whenever nothing is running
status_always_fails(ps, simple_name, simple_time, t) ==
    IF ps # <<>> /\ is_none(Last(ps).end_time)
    THEN Result(Ok, Some(
            IF simple_name THEN Last(ps).project \o "\n"
            ELSE IF simple_time
                 THEN duration(Seconds(t - Last(ps).start_time)) \o "\n"
            ELSE "Project " \o Last(ps).project \o " started "
                 \o duration(Seconds(t - Last(ps).start_time)) \o " ago ("
                 \o datetime(Last(ps).start_time) \o ")\n"))
    ELSE Result(NothingTrackedError, None)

\* Doug::status at time t (the colours of the full sentence are left out)
status(ps, simple_name, simple_time, t) ==
    IF ps # <<>> /\ is_none(Last(ps).end_time)
    THEN Result(Ok, Some(
            IF simple_name THEN Last(ps).project \o "\n"
            ELSE IF simple_time
                 THEN duration(Seconds(t - Last(ps).start_time)) \o "\n"
            ELSE "Project " \o Last(ps).project \o " started "
                 \o duration(Seconds(t - Last(ps).start_time)) \o " ago ("
                 \o datetime(Last(ps).start_time) \o ")\n"))
    ELSE IF ~ (simple_name \/ simple_time)
         THEN Result(NothingTrackedError, None)
         ELSE Result(Ok, None)

\* a query that saves the instance
Query_saves(name, args, r) ==
    /\ op' = name
    /\ call' = args
    /\ res' = r.res
    /\ message' = r.message
    /\ UNCHANGED settings_vars
    /\ disk' = to_string(periods)
    /\ backup' = Some(disk)
    /\ UNCHANGED <<periods, now, faults>>

\* a query leaves the instance and the files as they are
Query(name, args, r) ==
    /\ op' = name
    /\ call' = args
    /\ res' = r.res
    /\ message' = r.message
    /\ UNCHANGED settings_vars
    /\ UNCHANGED <<periods, disk, backup, now, faults>>

Status(simple_name, simple_time) ==
    Query("status",
          [simple_name |-> simple_name, simple_time |-> simple_time],
          status(periods, simple_name, simple_time, now))

\* ------------------------------------------------------------ report
\* The clock counts ticks from the first tick of the day 0001-01-01, the day
\* NaiveDate::from_ymd(1, 1, 1); the local time zone is UTC.
ParseError == "ParseError"                       \* "Invalid date format."

\* with_timezone(&Local).date(): the number of the day of a time
date(t) == t \div TicksPerDay
\* Date::and_hms(0, 0, 0): the first tick of a day
and_hms(d) == d * TicksPerDay
min_date(a, b) == IF a < b THEN a ELSE b
max_date(a, b) == IF a > b THEN a ELSE b

one_year == 365 * TicksPerDay
one_month == 31 * TicksPerDay
one_week == 7 * TicksPerDay
one_day == TicksPerDay

\* the text of a day in the format %Y-%m-%d, and of a day in a header
date_string(d) == ToString(d)

\* the days a --from or --to argument names, and the arguments themselves
ReportDays == { date(QueryNow) - 1 }
DateStrings == { date_string(d) : d \in ReportDays } \cup { "garbage" }

\* NaiveDate::parse_from_str(s, "%Y-%m-%d"): Some(day) or None
parse_from_str(s) ==
    IF \E d \in ReportDays : date_string(d) = s
    THEN Some(CHOOSE d \in ReportDays : date_string(d) = s)
    ELSE None

\* what add_interval gives back: the duration, and the two dates it updates
\* through its &mut parameters
Interval(d, start_date, end_date) ==
    [duration |-> d, start_date |-> start_date, end_date |-> end_date]

\* add_interval without the clipping at start_limit
add_interval_from_start(start_limit, end_limit, start_time, end_time_opt, start_date, end_date, t) ==
    LET end_time == IF is_some(end_time_opt) THEN unwrap(end_time_opt) ELSE t
    IN  IF start_time >= start_limit /\ start_time <= end_limit
        THEN IF end_time > end_limit
             THEN Interval(end_limit - start_time, start_date, end_date)
             ELSE Interval(end_time - start_time, start_date, end_date)
        ELSE IF end_time >= start_limit /\ end_time <= end_limit
        THEN Interval(end_time - start_time, start_date, end_date)
        ELSE Interval(0, start_date, end_date)

\* add_interval that counts a period outside the limits in full
add_interval_counts_outside(start_limit, end_limit, start_time, end_time_opt, start_date, end_date, t) ==
    LET end_time == IF is_some(end_time_opt) THEN unwrap(end_time_opt) ELSE t
    IN  IF start_time >= start_limit /\ start_time <= end_limit
        THEN IF end_time > end_limit
             THEN Interval(end_limit - start_time, start_date, end_date)
             ELSE Interval(end_time - start_time, start_date, end_date)
        ELSE IF end_time >= start_limit /\ end_time <= end_limit
        THEN Interval(end_time - start_limit, start_date, end_date)
        ELSE Interval(end_time - start_time, start_date, end_date)

\* add_interval, with t the time its own Utc::now() reads
add_interval(start_limit, end_limit, start_time, end_time_opt, start_date, end_date, t) ==
    LET end_time == IF is_some(end_time_opt) THEN unwrap(end_time_opt) ELSE t
    IN  IF start_time >= start_limit /\ start_time <= end_limit
        THEN IF end_time > end_limit
             THEN Interval(end_limit - start_time,
                           min_date(date(start_time), start_date),
                           max_date(date(end_limit), end_date))
             ELSE Interval(end_time - start_time,
                           min_date(date(start_time), start_date),
                           max_date(date(end_time), end_date))
        ELSE IF end_time >= start_limit /\ end_time <= end_limit
        THEN IF end_time > end_limit
             THEN Interval(end_limit - start_time,
                           min_date(date(start_limit), start_date),
                           max_date(date(end_limit), end_date))
             ELSE Interval(end_time - start_limit,
                           min_date(date(start_limit), start_date),
                           max_date(date(end_time), end_date))
        ELSE Interval(0, start_date, end_date)

\* the arguments of report
ReportArgs(past_years, past_months, past_weeks, past_days, from_date, to_date) ==
    [past_years |-> past_years, past_months |-> past_months,
     past_weeks |-> past_weeks, past_days |-> past_days,
     from_date |-> from_date, to_date |-> to_date]

\* the branches with past_months tested before past_years
Window_months_first(a, today, limit_now) ==
    LET from_date_parsed == IF is_some(a.from_date)
                            THEN unwrap(parse_from_str(unwrap(a.from_date)))
                            ELSE date(today)
        to_date_parsed == IF is_some(a.to_date)
                          THEN unwrap(parse_from_str(unwrap(a.to_date)))
                          ELSE date(today)
        Limits(s, e) == [limited |-> TRUE, start_limit |-> s, end_limit |-> e]
    IN  IF a.past_months > 0 THEN Limits(today - one_month * a.past_months, limit_now)
        ELSE IF a.past_years > 0 THEN Limits(today - one_year * a.past_years, limit_now)
        ELSE IF a.past_weeks > 0 THEN Limits(today - one_week * a.past_weeks, limit_now)
        ELSE IF a.past_days > 0 THEN Limits(today - one_day * a.past_days, limit_now)
        ELSE IF is_some(a.from_date) \/ is_some(a.to_date)
             THEN Limits(and_hms(from_date_parsed), and_hms(to_date_parsed))
        ELSE [limited |-> FALSE, start_limit |-> 0, end_limit |-> 0]

\* The branch the closure of the fold takes: the two limits handed to
\* add_interval, or no limits. today is the time report read first, limit_now
\* the time read for an end_limit; from_date and to_date stand for today
\* when they are not given.
Window(a, today, limit_now) ==
    LET from_date_parsed == IF is_some(a.from_date)
                            THEN unwrap(parse_from_str(unwrap(a.from_date)))
                            ELSE date(today)
        to_date_parsed == IF is_some(a.to_date)
                          THEN unwrap(parse_from_str(unwrap(a.to_date)))
                          ELSE date(today)
        Limits(s, e) == [limited |-> TRUE, start_limit |-> s, end_limit |-> e]
    IN  IF a.past_years > 0 THEN Limits(today - one_year * a.past_years, limit_now)
        ELSE IF a.past_months > 0 THEN Limits(today - one_month * a.past_months, limit_now)
        ELSE IF a.past_weeks > 0 THEN Limits(today - one_week * a.past_weeks, limit_now)
        ELSE IF a.past_days > 0 THEN Limits(today - one_day * a.past_days, limit_now)
        ELSE IF is_some(a.from_date) \/ is_some(a.to_date)
             THEN Limits(and_hms(from_date_parsed), and_hms(to_date_parsed))
        ELSE [limited |-> FALSE, start_limit |-> 0, end_limit |-> 0]

\* the step that takes the end date of the header from the start of the period
fold_step_end_from_start(acc, x, w, t) ==
    IF w.limited
    THEN LET r == add_interval(w.start_limit, w.end_limit, x.start_time, x.end_time,
                               acc.start_date, acc.end_date, t)
         IN  Interval(acc.duration + r.duration, r.start_date, r.end_date)
    ELSE LET end_time == IF is_some(x.end_time) THEN unwrap(x.end_time) ELSE t
         IN  Interval(acc.duration + (end_time - x.start_time),
                      min_date(date(x.start_time), acc.start_date),
                      max_date(date(x.start_time), acc.end_date))

\* one step of the fold: the period x added to the accumulator acc (the
\* duration so far and the two dates of the header)
fold_step(acc, x, w, t) ==
    IF w.limited
    THEN LET r == add_interval(w.start_limit, w.end_limit, x.start_time, x.end_time,
                               acc.start_date, acc.end_date, t)
         IN  Interval(acc.duration + r.duration, r.start_date, r.end_date)
    ELSE LET end_time == IF is_some(x.end_time) THEN unwrap(x.end_time) ELSE t
         IN  Interval(acc.duration + (end_time - x.start_time),
                      min_date(date(x.start_time), acc.start_date),
                      max_date(date(end_time), acc.end_date))

RECURSIVE fold_project(_, _, _, _, _)
\* the fold over the periods of one project, in the order of the store
fold_project(ps, project, acc, w, t) ==
    IF ps = <<>> THEN acc
    ELSE fold_project(Tail(ps), project,
                      IF Head(ps).project = project
                      THEN fold_step(acc, Head(ps), w, t) ELSE acc,
                      w, t)

\* the projects in the order of String, the order results.sort() gives
SortedProjects == <<"a", "b">>

RECURSIVE fold_projects(_, _, _, _, _, _, _)
\* The loop over the projects of the store: the total of every project that
\* has a period, and the two dates. The dates are a minimum and a maximum,
\* so the order in which the HashMap hands out the projects does not show.
fold_projects(ps, i, totals, start_date, end_date, w, t) ==
    IF i > Len(SortedProjects)
    THEN [totals |-> totals, start_date |-> start_date, end_date |-> end_date]
    ELSE IF \A k \in 1 .. Len(ps) : ps[k].project # SortedProjects[i]
    THEN fold_projects(ps, i + 1, totals, start_date, end_date, w, t)
    ELSE LET r == fold_project(ps, SortedProjects[i],
                               Interval(0, start_date, end_date), w, t)
         IN  fold_projects(ps, i + 1,
                           Append(totals, <<SortedProjects[i], r.duration>>),
                           r.start_date, r.end_date, w, t)

\* format!'s {:width$} and {:>width$}: a text padded on the right, on the left
RECURSIVE pad_right(_, _)
pad_right(text, width) ==
    IF Len(text) >= width THEN text ELSE pad_right(text \o " ", width)
RECURSIVE pad_left(_, _)
pad_left(text, width) ==
    IF Len(text) >= width THEN text ELSE pad_left(" " \o text, width)

RECURSIVE max_len(_)
\* the greatest length of the texts in a sequence
max_len(texts) ==
    IF texts = <<>> THEN 0
    ELSE LET m == max_len(Tail(texts))
         IN  IF Len(Head(texts)) > m THEN Len(Head(texts)) ELSE m

\* the name of a result, and its duration as text
result_project(r) == r[1]
result_duration(r) == duration(Seconds(r[2]))

RECURSIVE report_lines(_, _, _)
report_lines(results, pwidth, dwidth) ==
    IF results = <<>> THEN ""
    ELSE pad_right(result_project(Head(results)), pwidth) \o " "
         \o pad_left(result_duration(Head(results)), dwidth) \o "\n"
         \o report_lines(Tail(results), pwidth, dwidth)

\* the projects report prints with their totals (results after the sort),
\* and the dates of the header; today, limit_now and end_now are the times
\* read by Utc::now() at the top of report, for an end_limit, and inside
\* add_interval or the last branch of the fold
report_results(ps, a, today, limit_now, end_now) ==
    LET r == fold_projects(ps, 1, <<>>, date(today), 0,
                           Window(a, today, limit_now), end_now)
    IN  [results |-> SelectSeq(r.totals, LAMBDA x : x[2] # 0),
         start_date |-> r.start_date, end_date |-> r.end_date]

\* Doug::report (the colours are left out)
report(ps, a, today, limit_now, end_now) ==
    IF \/ is_some(a.from_date) /\ is_none(parse_from_str(unwrap(a.from_date)))
       \/ is_some(a.to_date) /\ is_none(parse_from_str(unwrap(a.to_date)))
    THEN Result(ParseError, None)
    ELSE LET r == report_results(ps, a, today, limit_now, end_now)
         IN  Result(Ok, Some(
                date_string(r.start_date) \o " -> " \o date_string(r.end_date) \o "\n"
                \o report_lines(r.results,
                     max_len([i \in 1 .. Len(r.results) |-> result_project(r.results[i])]),
                     max_len([i \in 1 .. Len(r.results) |-> result_duration(r.results[i])]))))

\* report on the instance, the clock read once
Report(a) ==
    Query("report", a, report(periods, a, now, now, now))

\* ------------------------------------------------------------ log
\* format::time, "%H:%M" in a local time zone that is UTC: the tick of the day
time(t) == ToString(t % TicksPerDay)

RECURSIVE sort_by_key(_)
\* days.sort_by_key: the dates of a set in ascending order
sort_by_key(dates) ==
    IF dates = {} THEN <<>>
    ELSE LET first == CHOOSE d \in dates : \A e \in dates : d <= e
         IN  <<first>> \o sort_by_key(dates \ {first})

\* the periods pushed under the date of their end
day_periods_by_end_date(ps, d) ==
    SelectSeq(ps, LAMBDA x : date(IF is_some(x.end_time)
                                   THEN unwrap(x.end_time) ELSE x.start_time) = d)

\* the entry of the HashMap for a date: the periods that start on it, in the
\* order of the store
day_periods(ps, d) ==
    SelectSeq(ps, LAMBDA x : date(x.start_time) = d)

RECURSIVE day_total(_, _)
\* the fold over the periods of a day, a running period counted until t
day_total(day, t) ==
    IF day = <<>> THEN 0
    ELSE ((IF is_some(Head(day).end_time) THEN unwrap(Head(day).end_time) ELSE t)
          - Head(day).start_time)
         + day_total(Tail(day), t)

\* the days of log after the sort: for every date on which a period starts,
\* the date, the total of the header and the periods of the day
log_days(ps, t) ==
    LET dates == sort_by_key({ date(ps[i].start_time) : i \in 1 .. Len(ps) })
    IN  [i \in 1 .. Len(dates) |->
            [date |-> dates[i],
             total |-> day_total(day_periods(ps, dates[i]), t),
             day |-> day_periods(ps, dates[i])]]

\* the line of a period
log_line(period, t) ==
    LET end_time == IF is_some(period.end_time) THEN unwrap(period.end_time) ELSE t
    IN  "    " \o time(period.start_time) \o " to " \o time(end_time) \o " "
        \o pad_left(duration(Seconds(end_time - period.start_time)), 11)
        \o " " \o period.project \o "\n"

RECURSIVE log_lines(_, _)
log_lines(day, t) ==
    IF day = <<>> THEN ""
    ELSE log_line(Head(day), t) \o log_lines(Tail(day), t)

RECURSIVE log_text(_, _)
\* the header and the lines of every day
log_text(days, t) ==
    IF days = <<>> THEN ""
    ELSE date_string(Head(days).date) \o " ("
         \o duration(Seconds(Head(days).total)) \o ")\n"
         \o log_lines(Head(days).day, t)
         \o log_text(Tail(days), t)

\* Doug::log at time t (the colours are left out)
log(ps, t) == Result(Ok, Some(log_text(log_days(ps, t), t)))

Log == Query("log", NoCall, log(periods, now))

\* ------------------------------------------------------------ drawn stores
\* The times of the periods of a drawn store: the time of the query, two
\* times of the day before, and times three, ten and fifty days back.
QueryTimes ==
    { QueryNow - m : m \in {0, 2, 3, 3 * TicksPerDay, 10 * TicksPerDay, 50 * TicksPerDay} }

QueryPeriods ==
    { [project |-> p, start_time |-> s, end_time |-> e] :
        p \in Projects, s \in QueryTimes,
        e \in {None} \cup { Some(x) : x \in QueryTimes } }

\* a store the tracking methods leave under a clock that does not go back:
\* only the last period may be open, a period ends no earlier than it starts
\* and no later than the next one starts
Chronological(ps) ==
    /\ \A i \in 1 .. Len(ps) :
          is_some(ps[i].end_time) => ps[i].start_time <= unwrap(ps[i].end_time)
    /\ \A i \in 1 .. (Len(ps) - 1) :
          /\ is_some(ps[i].end_time)
          /\ unwrap(ps[i].end_time) <= ps[i + 1].start_time

QueryStores ==
    UNION { { ps \in [1 .. n -> QueryPeriods] : Chronological(ps) } : n \in 0 .. MaxLen }

\* Doug::new on a data file that holds a drawn store, at the time QueryNow
InitQuery ==
    /\ periods \in QueryStores
    /\ disk = to_string(periods)
    /\ backup = None
    /\ now = QueryNow
    /\ op = "new"
    /\ res = Ok
    /\ call = NoCall
    /\ faults = 0
    /\ message = None
    /\ SettingsInit

PastArgs == 0 .. MaxPast
DateOptions == {None} \cup { Some(x) : x \in DateStrings }

\* one invocation of the program: the store is loaded and one query is made
NextQuery ==
    \/ /\ op = "new"
       /\ \E simple_name \in BOOLEAN, simple_time \in BOOLEAN :
             Status(simple_name, simple_time)
    \/ /\ op = "new"
       /\ \E y \in PastArgs, m \in PastArgs, w \in PastArgs, d \in PastArgs,
             f \in DateOptions, t \in DateOptions :
             Report(ReportArgs(y, m, w, d, f, t))
    \/ /\ op = "new"
       /\ Log

SpecQuery == InitQuery /\ [][NextQuery]_vars

\* ------------------------------------------------------------ add_interval alone
\* add_interval on two limits and a period drawn from the instants
\* 0 .. MaxInstant: a closed period that ends no earlier than it starts, or
\* a running one that started no later than the time of the call.
Instants == 0 .. MaxInstant

IntervalArgs ==
    { [start_limit |-> sl, end_limit |-> el, start_time |-> s, end_time |-> e] :
        sl \in Instants, el \in Instants, s \in Instants,
        e \in {None} \cup { Some(x) : x \in Instants } }

InitInterval ==
    /\ call \in IntervalArgs
    /\ now \in Instants
    /\ IF is_some(call.end_time)
       THEN call.start_time <= unwrap(call.end_time) /\ now = MaxInstant
       ELSE call.start_time <= now
    /\ periods = <<>>
    /\ disk = <<>>
    /\ backup = None
    /\ op = "new"
    /\ res = Ok
    /\ faults = 0
    /\ message = None
    /\ SettingsInit

\* the call of add_interval, with the dates report starts from; res is what
\* it returns and leaves in the two dates
AddInterval ==
    /\ op = "new"
    /\ op' = "add_interval"
    /\ res' = add_interval(call.start_limit, call.end_limit,
                           call.start_time, call.end_time, date(now), 0, now)
    /\ UNCHANGED <<periods, disk, backup, now, call, faults, message, settings_vars>>

NextInterval == AddInterval

SpecInterval == InitInterval /\ [][NextInterval]_vars

\* ------------------------------------------------------------ the readings of the clock
\* report reads the clock more than once: today at its top, Utc::now() as
\* the end_limit of a trailing window when it calls add_interval, and
\* Utc::now() again inside add_interval for the end of a running period.
\* The readings are taken in that order and the clock may advance between
\* them; a tick stands for any advance.
ReadingsAfter(t) == { t, t + 1 }

\* report on the instance, with the times the three readings give
ReportReads(a, limit_now, end_now) ==
    Query("report",
          [args |-> a, limit_now |-> limit_now, end_now |-> end_now],
          report(periods, a, now, limit_now, end_now))

NextReads ==
    /\ op = "new"
    /\ \E y \in PastArgs, m \in PastArgs, w \in PastArgs, d \in PastArgs,
          f \in DateOptions, t \in DateOptions :
          \E limit_now \in ReadingsAfter(now) :
             \E end_now \in ReadingsAfter(limit_now) :
                ReportReads(ReportArgs(y, m, w, d, f, t), limit_now, end_now)

SpecReads == InitQuery /\ [][NextReads]_vars

\* the tracking methods and log on one instance
NextLog ==
    \/ Next
    \/ Log

SpecLog == Init /\ [][NextLog]_vars

\* ------------------------------------------------------------ format::duration alone
\* format::duration on a duration of whole seconds drawn from zero up to
\* the last second of the hour MaxHours
DurationSeconds == 0 .. ((MaxHours + 1) * 3600 - 1)

InitDuration ==
    /\ call \in { [secs |-> n] : n \in DurationSeconds }
    /\ periods = <<>>
    /\ disk = <<>>
    /\ backup = None
    /\ now = 0
    /\ op = "new"
    /\ res = Ok
    /\ faults = 0
    /\ message = None
    /\ SettingsInit

\* the call of format::duration; message is the text it returns
Duration ==
    /\ op = "new"
    /\ op' = "duration"
    /\ message' = Some(duration(call.secs))
    /\ UNCHANGED settings_vars
    /\ UNCHANGED <<periods, disk, backup, now, res, call, faults>>

NextDuration == Duration

SpecDuration == InitDuration /\ [][NextDuration]_vars

\* ------------------------------------------------------------ main.rs
\* The command line program of main.rs: one invocation loads the periods
\* from the data file, runs the function of the subcommand and returns from
\* main. What a function did: whether it wrote an error to stderr, the
\* vector it leaves and whether it called save.
Ran(failed, ps, saves) == [failed |-> failed, periods |-> ps, save |-> saves]

\* periods(): the vector read from the data file, the empty one on an
\* end-of-file error; any other error panics
main_periods(d) ==
    LET r == from_reader(d)
    IN  CASE r.kind = "ok" -> [panicked |-> FALSE, periods |-> r.value]
          [] r.kind = "eof" -> [panicked |-> FALSE, periods |-> <<>>]
          [] OTHER -> [panicked |-> TRUE, periods |-> <<>>]

main_start(project_name, ps, t) ==
    IF ps # <<>> /\ is_none(Last(ps).end_time)
    THEN Ran(TRUE, ps, FALSE)
    ELSE Ran(FALSE, Append(ps, PeriodNew(project_name, t)), TRUE)

main_status(ps, simple_name, simple_time) ==
    IF ps # <<>> /\ is_none(Last(ps).end_time)
    THEN Ran(FALSE, ps, FALSE)
    ELSE Ran(~ (simple_name \/ simple_time), ps, FALSE)

main_stop(ps, t) ==
    IF ps # <<>> /\ is_none(Last(ps).end_time)
    THEN Ran(FALSE, Append(Front(ps), [Last(ps) EXCEPT !.end_time = Some(t)]), TRUE)
    ELSE Ran(TRUE, IF ps = <<>> THEN ps ELSE Front(ps), FALSE)

main_cancel(ps) ==
    IF ps # <<>> /\ is_none(Last(ps).end_time)
    THEN Ran(FALSE, Front(ps), TRUE)
    ELSE Ran(TRUE, IF ps = <<>> THEN ps ELSE Front(ps), FALSE)

\* restart that does not test whether the last period is running
main_restart_unguarded(ps, t) ==
    IF ps = <<>> THEN Ran(TRUE, ps, FALSE)
    ELSE Ran(FALSE, Append(ps, PeriodNew(Last(ps).project, t)), TRUE)

main_restart(ps, t) ==
    IF ps = <<>> THEN Ran(TRUE, ps, FALSE)
    ELSE IF is_some(Last(ps).end_time)
         THEN Ran(FALSE, Append(ps, PeriodNew(Last(ps).project, t)), TRUE)
         ELSE Ran(TRUE, ps, FALSE)

main_amend(project_name, ps) ==
    IF ps # <<>> /\ is_none(Last(ps).end_time)
    THEN Ran(FALSE, Append(Front(ps), [Last(ps) EXCEPT !.project = project_name]), TRUE)
    ELSE Ran(TRUE, IF ps = <<>> THEN ps ELSE Front(ps), FALSE)

main_delete(project_name, ps) ==
    IF \A i \in 1 .. Len(ps) : ps[i].project # project_name
    THEN Ran(TRUE, ps, FALSE)
    ELSE Ran(FALSE, Filter(ps, project_name), TRUE)

\* the status of the process: main returns (), which ends the process with
\* the status 0; a panic ends it with the status 101. No function of main.rs
\* calls process::exit.
exit_status(panicked) == IF panicked THEN 101 ELSE 0

\* the subcommands that can fail
Subcommands == {"start", "amend", "delete", "status", "stop", "cancel", "restart"}

\* main for a subcommand and its arguments, at time t on the vector ps
main(subcommand, project, simple_name, simple_time, ps, t) ==
    CASE subcommand = "start" -> main_start(project, ps, t)
      [] subcommand = "amend" -> main_amend(project, ps)
      [] subcommand = "delete" -> main_delete(project, ps)
      [] subcommand = "status" -> main_status(ps, simple_name, simple_time)
      [] subcommand = "stop" -> main_stop(ps, t)
      [] subcommand = "cancel" -> main_cancel(ps)
      [] OTHER -> main_restart(ps, t)

\* One invocation of the program. save_periods copies the data file to the
\* backup and writes the vector; the file system does not fail here.
Main(subcommand, project, simple_name, simple_time) ==
    LET loaded == main_periods(disk)
        ran == main(subcommand, project, simple_name, simple_time,
                    loaded.periods, now)
    IN  /\ subcommand \in {"start", "restart"} => Len(loaded.periods) < MaxLen
        /\ op' = "main"
        /\ call' = [subcommand |-> subcommand, project |-> project,
                    simple_name |-> simple_name, simple_time |-> simple_time,
                    pre |-> loaded.periods]
        /\ IF loaded.panicked
           THEN /\ res' = [exit |-> exit_status(TRUE), failed |-> TRUE]
                /\ UNCHANGED <<periods, disk, backup>>
           ELSE /\ res' = [exit |-> exit_status(FALSE), failed |-> ran.failed]
                /\ periods' = ran.periods
                /\ disk' = IF ran.save THEN to_string(ran.periods) ELSE disk
                /\ backup' = IF ran.save THEN Some(disk) ELSE backup
        /\ message' = None
        /\ UNCHANGED settings_vars
        /\ UNCHANGED <<now, faults>>

\* the clock between two invocations
MainTick ==
    /\ now < MaxTime
    /\ now' = now + 1
    /\ UNCHANGED <<periods, disk, backup, op, res, call, faults, message, settings_vars>>

NextMain ==
    \/ MainTick
    \/ \E subcommand \in Subcommands, project \in Projects,
          simple_name \in BOOLEAN, simple_time \in BOOLEAN :
          Main(subcommand, project, simple_name, simple_time)

SpecMain == Init /\ [][NextMain]_vars

\* The tracking methods and the three queries on one instance. The reports
\* are those of no window, of a window of years or of days, and of a range
\* with a from date that parses or does not.
NextQueries ==
    \/ Next
    \/ \E simple_name \in BOOLEAN, simple_time \in BOOLEAN :
          Status(simple_name, simple_time)
    \/ \E y \in PastArgs, d \in PastArgs, f \in DateOptions :
          Report(ReportArgs(y, 0, 0, d, f, None))
    \/ Log

SpecQueries == Init /\ [][NextQueries]_vars

\* ------------------------------------------------------------ Doug::settings
\* the data file and the backup of a folder
folder_files(d) ==
    IF d = Home THEN [data |-> Some(disk), backup |-> backup] ELSE folders[d]

\* the stores of at most one period, running or stopped
SettingsStores ==
    {<<>>} \cup
    { <<[project |-> p, start_time |-> s, end_time |-> e]>> :
        p \in Projects, s \in Times,
        e \in {None} \cup { Some(t) : t \in Times } }

\* Doug::new on a settings folder whose data file holds a drawn store
InitSettings ==
    /\ periods \in SettingsStores
    /\ disk = to_string(periods)
    /\ backup = None
    /\ now = MaxTime
    /\ op = "new"
    /\ res = Ok
    /\ call = NoCall
    /\ faults = 0
    /\ message = None
    /\ SettingsInit

\* the record of a call of settings: its arguments, the instance it found,
\* whether the folder of path had no data file, and whether the call saved
\* the settings
SettingsArgs(path, clear, io) ==
    [path |-> path, clear |-> clear, pre |-> periods,
     fresh |-> ~clear /\ is_some(path) /\ is_none(folder_files(unwrap(path)).data),
     saved |-> ~clear /\ is_some(path) /\ io = "ok"]

\* Doug::settings(path, clear). With clear the settings file is truncated.
\* With a path the folder is created, the path becomes the data location of
\* the instance, the settings are saved and then the periods are saved in
\* the new location: save first copies the data file of that location to the
\* backup, which fails when the folder has no data file yet.
Settings(path, clear, io) ==
    /\ op' = "settings"
    /\ call' = SettingsArgs(path, clear, io)
    /\ message' = None
    /\ UNCHANGED <<periods, now, faults>>
    /\ IF clear
       THEN /\ settings_json' = <<>>
            /\ res' = Ok
            /\ UNCHANGED <<data_location, disk, backup, folders>>
       ELSE IF is_none(path)
       THEN /\ res' = Ok
            /\ UNCHANGED <<data_location, settings_json, disk, backup, folders>>
       ELSE LET d == unwrap(path)
                sv == settings_save(d, settings_json, io)
                found == folder_files(d)
            IN  /\ data_location' = d
                /\ settings_json' = sv.file
                /\ IF sv.res # Ok
                   THEN /\ res' = sv.res
                        /\ UNCHANGED <<disk, backup, folders>>
                   ELSE IF is_none(found.data)
                   THEN /\ res' = IOError
                        /\ UNCHANGED <<disk, backup, folders>>
                   ELSE /\ res' = Ok
                        /\ IF d = Home
                           THEN /\ disk' = to_string(periods)
                                /\ backup' = found.data
                                /\ UNCHANGED folders
                           ELSE /\ folders' = [folders EXCEPT ![d] =
                                      [data |-> Some(to_string(periods)),
                                       backup |-> found.data]]
                                /\ UNCHANGED <<disk, backup>>

\* Doug::new(Some(Home)), the next invocation of the program: the settings
\* are loaded (and saved when the settings file is empty), the data file of
\* their data location is created when it is missing, and the periods are
\* read from it. When the settings or the periods do not parse the
\* construction fails and the instance stays as it is.
NewInFolder(io) ==
    LET st == settings_new(Home, settings_json, io)
        d == st.data_location
        found == folder_files(d)
        content == IF is_some(found.data) THEN unwrap(found.data) ELSE <<>>
        r == from_reader(content)
    IN  /\ op' = "new"
        /\ call' = NoCall
        /\ message' = None
        /\ settings_json' = st.file
        /\ UNCHANGED <<now, faults, disk, backup>>
        /\ IF st.res # Ok
           THEN /\ res' = st.res
                /\ UNCHANGED <<periods, data_location, folders>>
           ELSE /\ folders' = IF d # Home /\ is_none(found.data)
                              THEN [folders EXCEPT ![d].data = Some(<<>>)]
                              ELSE folders
                /\ IF r.kind = "syntax"
                   THEN /\ res' = "ParseError"
                        /\ UNCHANGED <<periods, data_location>>
                   ELSE /\ res' = Ok
                        /\ data_location' = d
                        /\ periods' = IF r.kind = "ok" THEN r.value ELSE <<>>

PathOptions == {None} \cup { Some(d) : d \in Dirs }

NextSettings ==
    \/ \E path \in PathOptions, clear \in BOOLEAN, io \in SettingsOutcomes :
          Settings(path, clear, io)
    \/ \E io \in SettingsOutcomes : NewInFolder(io)

SpecSettings == InitSettings /\ [][NextSettings]_vars

\* ================================================================ claims
\* the store has an open last period
Tracking(ps) == ps # <<>> /\ is_none(Last(ps).end_time)

\* at most one period of ps is open, and an open one is the last element
OpenOnlyLast(ps) ==
    \A i \in 1 .. Len(ps) : is_none(ps[i].end_time) => i = Len(ps)

\* C1: starting from the empty store, after any sequence of calls
\* (successful or failing, failing saves included) at most one period is
\* open, and an open period is the last element: of the in-memory sequence
\* and of the sequence the data file holds.
C1_OpenOnlyLast ==
    /\ OpenOnlyLast(periods)
    /\ from_reader(disk).kind = "ok" => OpenOnlyLast(from_reader(disk).value)

\* a delete has removed the closed first period in front of a running one
C1_Witness ==
    /\ op = "delete" /\ res = Ok
    /\ Len(call.pre) = 2 /\ Len(periods) = 1
    /\ Tracking(periods)

\* C2: with a clock that never goes back, every period of the store that has
\* an end_time has end_time >= start_time.
C2_EndNotBeforeStart ==
    \A i \in 1 .. Len(periods) :
        is_some(periods[i].end_time)
            => unwrap(periods[i].end_time) >= periods[i].start_time

\* C3: start fails with AlreadyTrackingError exactly when the store it finds
\* has an open last period (never on the empty store); otherwise the store
\* is the one it found with one period appended: the given project,
\* start_time = now, no end_time.
C3_Start ==
    op = "start" =>
        /\ res = AlreadyTrackingError <=> Tracking(call.pre)
        /\ ~ Tracking(call.pre) =>
              periods = Append(call.pre,
                               [project |-> call.project,
                                start_time |-> now,
                                end_time |-> None])

\* a start has appended a period behind an earlier, closed one
C3_Witness ==
    /\ op = "start" /\ res = Ok
    /\ Len(call.pre) = 1 /\ Len(periods) = 2
    /\ now > call.pre[1].start_time

\* C4: stop fails with NothingTrackedError exactly when the store it finds is
\* empty or has a closed last period; otherwise it sets the end_time of the
\* last period to now and changes nothing else.
C4_Stop ==
    op = "stop" =>
        /\ res = NothingTrackedError <=> ~ Tracking(call.pre)
        /\ Tracking(call.pre) =>
              /\ Len(periods) = Len(call.pre)
              /\ Last(periods).end_time = Some(now)
              /\ Last(periods).project = Last(call.pre).project
              /\ Last(periods).start_time = Last(call.pre).start_time
              /\ \A i \in 1 .. (Len(call.pre) - 1) : periods[i] = call.pre[i]

\* a stop has closed the second period of the store, later than it started
C4_Witness ==
    /\ op = "stop" /\ res = Ok
    /\ Len(periods) = 2
    /\ now > Last(periods).start_time

\* The effect of cancel: it fails with NothingTrackedError exactly when the
\* store it finds has no open last period; otherwise it removes the open
\* period and keeps all earlier ones.
C5_CancelEffect ==
    op = "cancel" =>
        /\ res = NothingTrackedError <=> ~ Tracking(call.pre)
        /\ Tracking(call.pre) => periods = Front(call.pre)

\* C5: the effect of cancel above holds after every call of cancel, and a
\* cancel that follows a successful stop on the same instance fails with
\* NothingTrackedError.
C5_Cancel ==
    /\ [] C5_CancelEffect
    /\ [][(op = "stop" /\ res = Ok /\ op' = "cancel")
             => res' = NothingTrackedError]_vars

\* a cancel has failed on a store whose last period was stopped at this time
C5_Witness ==
    /\ op = "cancel" /\ res = NothingTrackedError
    /\ Len(call.pre) = 2
    /\ Last(call.pre).end_time = Some(now)
    /\ Last(call.pre).start_time < now

\* C6: restart fails with NoHistoryError on the empty store and with
\* AlreadyTrackingError when the last period is open; otherwise the store is
\* the one it found with one open period appended that starts now and has
\* the project of the period that was last.
C6_Restart ==
    op = "restart" =>
        /\ res = NoHistoryError <=> call.pre = <<>>
        /\ res = AlreadyTrackingError <=> Tracking(call.pre)
        /\ (call.pre # <<>> /\ ~ Tracking(call.pre)) =>
              periods = Append(call.pre,
                               [project |-> Last(call.pre).project,
                                start_time |-> now,
                                end_time |-> None])

\* a restart has appended a period behind the closed one it copies
C6_Witness ==
    /\ op = "restart" /\ res = Ok
    /\ Len(periods) = Len(call.pre) + 1
    /\ Last(periods).start_time > Last(call.pre).start_time

\* C7: amend fails with NothingTrackedError when the store it finds has no
\* open last period; otherwise it changes the project of the open last
\* period to the new name and nothing else.
C7_Amend ==
    op = "amend" =>
        /\ ~ Tracking(call.pre) => res = NothingTrackedError
        /\ Tracking(call.pre) =>
              /\ res = Ok
              /\ Len(periods) = Len(call.pre)
              /\ Last(periods) = [project |-> call.project,
                                  start_time |-> Last(call.pre).start_time,
                                  end_time |-> None]
              /\ \A i \in 1 .. (Len(call.pre) - 1) : periods[i] = call.pre[i]

\* an amend has renamed the running period behind a closed period that had
\* the same project
C7_Witness ==
    /\ op = "amend" /\ res = Ok
    /\ Len(periods) = 2
    /\ call.pre[1].project = call.pre[2].project
    /\ periods[2].project # call.pre[2].project

\* a period of the given project is in ps
HasProject(ps, project_name) ==
    \E i \in 1 .. Len(ps) : ps[i].project = project_name

C9_DeleteMissing ==
    (op = "delete" /\ ~ HasProject(call.pre, call.project)) =>
        /\ res = ProjectNotFoundError
        /\ ~ call.saved
        /\ disk = call.preDisk
        /\ periods = call.pre

\* a delete has missed on a store that holds periods of the other project
\* and differs from what the data file holds
C9_Witness ==
    /\ op = "delete" /\ res = ProjectNotFoundError
    /\ call.pre # <<>>
    /\ disk # to_string(call.pre)

\* an argument of edit that is given and does not parse
Unparsable(arg) == is_some(arg) /\ is_none(parse_date_string(unwrap(arg), now))

\* the time an argument of edit that is given and parses stands for
Parsed(arg) == unwrap(parse_date_string(unwrap(arg), now))

\* what a successful edit leaves: the parsed times in the last period,
\* everything else as it was, and the data file holding the result
EditApplied ==
    /\ res = Ok
    /\ Len(periods) = Len(call.pre)
    /\ Last(periods).project = Last(call.pre).project
    /\ Last(periods).start_time =
          IF is_some(call.start_arg) THEN Parsed(call.start_arg)
          ELSE Last(call.pre).start_time
    /\ Last(periods).end_time =
          IF is_some(call.end_arg) THEN Some(Parsed(call.end_arg))
          ELSE Last(call.pre).end_time
    /\ \A i \in 1 .. (Len(call.pre) - 1) : periods[i] = call.pre[i]
    /\ disk = to_string(periods)

EditCall == op = "edit" /\ (is_some(call.start_arg) \/ is_some(call.end_arg))

\* C10 as stated: edit with an argument fails with DateParseError if a given
\* string does not parse, fails with NoPeriodError if the store is empty,
\* and otherwise applies the parsed times to the last period and saves.
C10_EditAsStated ==
    EditCall =>
        IF Unparsable(call.start_arg) \/ Unparsable(call.end_arg)
        THEN res = DateParseError
        ELSE IF call.pre = <<>> THEN res = NoPeriodError
        ELSE EditApplied

\* the argument edit handles first
FirstArg == IF is_some(call.start_arg) THEN call.start_arg ELSE call.end_arg

\* C10 as amended: edit handles start and then end, each parsed and then
\* applied, and fails at the first step that fails. It fails with
\* DateParseError if the first given string does not parse, or if the store
\* is not empty and a given string does not parse; with NoPeriodError if the
\* store is empty and the first given string parses (a second string is then
\* never parsed); otherwise it applies the parsed times to the last period,
\* leaves everything else as it was, and saves.
C10_Edit ==
    EditCall =>
        IF Unparsable(FirstArg)
           \/ (call.pre # <<>>
               /\ (Unparsable(call.start_arg) \/ Unparsable(call.end_arg)))
        THEN res = DateParseError
        ELSE IF call.pre = <<>> THEN res = NoPeriodError
        ELSE EditApplied

\* an edit has set both times of the second period of the store
C10_Witness ==
    /\ EditCall /\ res = Ok
    /\ is_some(call.start_arg) /\ is_some(call.end_arg)
    /\ Len(periods) = 2
    /\ Last(periods).start_time # Last(call.pre).start_time
    /\ Last(periods).end_time # Last(call.pre).end_time

\* the text status gives for the running period of the store, by its flags
StatusText ==
    IF call.simple_name THEN Last(periods).project \o "\n"
    ELSE IF call.simple_time
         THEN duration(Seconds(now - Last(periods).start_time)) \o "\n"
    ELSE "Project " \o Last(periods).project \o " started "
         \o duration(Seconds(now - Last(periods).start_time)) \o " ago ("
         \o datetime(Last(periods).start_time) \o ")\n"

\* C11 as stated: status fails with NothingTrackedError exactly when the
\* store has no open last period and both flags are false; in every other
\* case it returns a text: the project name, the elapsed duration or the
\* full sentence.
C11_StatusAsStated ==
    op = "status" =>
        IF ~ Tracking(periods) /\ ~ call.simple_name /\ ~ call.simple_time
        THEN res = NothingTrackedError
        ELSE /\ res = Ok
             /\ is_some(message)
             /\ Tracking(periods) => message = Some(StatusText)

\* C11 as amended: status fails with NothingTrackedError exactly when the
\* store has no open last period and both flags are false. With an open
\* last period it returns the project name (simple_name, which wins over
\* simple_time), the elapsed duration now - start_time (simple_time) or the
\* full sentence (neither flag). With no open last period and a flag set it
\* succeeds and returns no text at all.
C11_Status ==
    op = "status" =>
        IF Tracking(periods)
        THEN res = Ok /\ message = Some(StatusText)
        ELSE IF ~ call.simple_name /\ ~ call.simple_time
             THEN res = NothingTrackedError /\ message = None
             ELSE res = Ok /\ message = None

\* status has been asked for the time only on a store whose last period is
\* closed, and has returned no text
C11_Witness ==
    /\ op = "status" /\ res = Ok /\ message = None
    /\ call.simple_time /\ ~ call.simple_name
    /\ periods # <<>> /\ ~ Tracking(periods)

\* the last call was one of the methods that change the store
Mutating ==
    \/ op \in {"start", "stop", "cancel", "restart", "amend", "delete"}
    \/ EditCall

\* the in-memory sequence is the one the call found with the change of the
\* call made to it
Mutated ==
    CASE op = "start" ->
           periods = Append(call.pre, [project |-> call.project,
                                        start_time |-> now, end_time |-> None])
      [] op = "stop" ->
           periods = [call.pre EXCEPT ![Len(call.pre)].end_time = Some(now)]
      [] op = "cancel" -> periods = Front(call.pre)
      [] op = "restart" ->
           periods = Append(call.pre, [project |-> Last(call.pre).project,
                                        start_time |-> now, end_time |-> None])
      [] op = "amend" ->
           periods = [call.pre EXCEPT ![Len(call.pre)].project = call.project]
      [] op = "delete" ->
           periods = SelectSeq(call.pre, LAMBDA x : x.project # call.project)
      [] OTHER ->
           /\ Len(periods) = Len(call.pre)
           /\ Front(periods) = Front(call.pre)
           /\ Last(periods).project = Last(call.pre).project
           /\ Last(periods).start_time =
                 IF is_some(call.start_arg) THEN Parsed(call.start_arg)
                 ELSE Last(call.pre).start_time
           /\ Last(periods).end_time =
                 IF is_some(call.end_arg) THEN Some(Parsed(call.end_arg))
                 ELSE Last(call.pre).end_time

\* C12: a mutating call (start, stop, cancel, restart, amend, delete, edit
\* with an argument) that returns success has saved, and the data file then
\* holds exactly the in-memory sequence; a call that reached its save
\* returns success or the IOError of the save, and in both cases the
\* in-memory sequence carries the change of the call (no rollback).
C12_SaveBeforeSuccess ==
    Mutating =>
        /\ res = Ok => (call.saved /\ disk = to_string(periods))
        /\ call.saved => (res \in {Ok, IOError} /\ Mutated)

\* a stop has failed in its save: the period is closed in memory while the
\* data file is the one the call found, with the period still open
C12_Witness ==
    /\ op = "stop" /\ res = IOError /\ call.saved
    /\ periods # call.pre
    /\ disk = call.preDisk
    /\ disk = to_string(call.pre)

\* C13: save copies the data file to the backup file before it truncates or
\* writes the data file. After every successful save the backup file holds
\* the content the data file had immediately before that save; a save whose
\* copy fails returns IOError and leaves the data file (and the backup) as
\* they were; and whenever the backup is not the previous content of the
\* data file, the copy failed and the data file is untouched.
C13_BackupFirst ==
    /\ call.saved =>
          /\ res = Ok => backup = Some(call.preDisk)
          /\ backup # Some(call.preDisk) => (res = IOError /\ disk = call.preDisk)
    /\ save(periods, disk, backup, "copy_failed", <<>>)
          = [res |-> IOError, disk |-> disk, backup |-> backup]

\* a successful save has moved a non-empty previous content to the backup
\* and written a different content to the data file
C13_Witness ==
    /\ call.saved /\ res = Ok
    /\ call.preDisk # <<>>
    /\ backup = Some(call.preDisk)
    /\ disk # call.preDisk

\* a save has failed in its copy: the backup is not the previous content of
\* the data file, and the data file is untouched
C13_WitnessCopyFailed ==
    /\ call.saved /\ res = IOError
    /\ backup # Some(call.preDisk)
    /\ disk = call.preDisk /\ disk # <<>>

\* C14: when an invocation is killed at any point of its save, the data
\* file holds the complete previous content or the complete serialization
\* of the sequence that was being saved, never an empty or partial content.
C14_AtomicOverwrite ==
    res = Killed => disk \in {call.preDisk, to_string(periods)}

\* C15: for every store the tracking methods produce, a successful save
\* followed by a load gives back the saved sequence: the data file parses
\* to a sequence equal to the in-memory one (same length and order, same
\* project, start_time and end_time, open periods open), and the sequence a
\* Doug::new has loaded from a saved file serializes back to that file.
C15_RoundTrip ==
    /\ (call.saved /\ res = Ok) => from_reader(disk) = ParseOk(periods)
    /\ (op = "new" /\ disk # <<>>) => (res = Ok /\ to_string(periods) = disk)

\* a Doug::new has loaded a closed period followed by a running one
C15_Witness ==
    /\ op = "new" /\ res = Ok
    /\ Len(periods) = 2
    /\ is_some(periods[1].end_time) /\ is_none(periods[2].end_time)
    /\ periods[2].start_time > periods[1].start_time
    /\ disk = to_string(periods)

\* C16: Doug::new gives the empty store only for an empty (or new) data
\* file; for every non-empty content that is not a JSON array of periods,
\* a truncated array included, it fails with ParseError.
C16_LoadRejectsPartial ==
    (op = "new" /\ disk # <<>> /\ from_reader(disk).kind # "ok")
        => res = ParseError

\* the arguments of a call of report with every argument below the one that
\* wins by the precedence years, months, weeks, days, date range taken away
Effective(a) ==
    IF a.past_years > 0 THEN ReportArgs(a.past_years, 0, 0, 0, None, None)
    ELSE IF a.past_months > 0 THEN ReportArgs(0, a.past_months, 0, 0, None, None)
    ELSE IF a.past_weeks > 0 THEN ReportArgs(0, 0, a.past_weeks, 0, None, None)
    ELSE IF a.past_days > 0 THEN ReportArgs(0, 0, 0, a.past_days, None, None)
    ELSE ReportArgs(0, 0, 0, 0, a.from_date, a.to_date)

\* a --from or --to of the call is given and is no date
BadDate(a) ==
    \/ is_some(a.from_date) /\ is_none(parse_from_str(unwrap(a.from_date)))
    \/ is_some(a.to_date) /\ is_none(parse_from_str(unwrap(a.to_date)))

\* C17 as stated: report applies one window, chosen by the precedence years,
\* months, weeks, days, date range, none; the arguments of lower precedence
\* have no effect: the call returns what it returns without them.
C17_PrecedenceAsStated ==
    op = "report" =>
        Result(res, message) = report(periods, Effective(call), now, now, now)

\* C17 as amended: report first parses from and to, and fails with
\* ParseError when one that is given is no date, whatever the other
\* arguments are; otherwise it applies one window, chosen by the precedence
\* years, months, weeks, days, date range, none, and the arguments of lower
\* precedence have no effect on the totals (nor on the header).
C17_Precedence ==
    op = "report" =>
        IF BadDate(call)
        THEN res = ParseError /\ message = None
        ELSE Result(res, message) = report(periods, Effective(call), now, now, now)

\* report has been called with every kind of window at once, on a store for
\* which the months alone give another output than the years
C17_Witness ==
    /\ op = "report" /\ res = Ok
    /\ call.past_years > 0 /\ call.past_months > 0
    /\ call.past_weeks > 0 /\ call.past_days > 0
    /\ is_some(call.from_date) /\ is_some(call.to_date)
    /\ message # report(periods, [call EXCEPT !.past_years = 0], now, now, now).message

\* the end of the period add_interval was called on, a running period
\* ending at the time of the call
PeriodEnd == IF is_some(call.end_time) THEN unwrap(call.end_time) ELSE now

Smaller(a, b) == IF a < b THEN a ELSE b
Greater(a, b) == IF a > b THEN a ELSE b

\* C18: for every period [start_time, end_time or now] that overlaps the
\* window [start_limit, end_limit], the duration add_interval counts is
\* min(end, end_limit) - max(start, start_limit); a period that starts
\* before the window and ends after it counts the length of the window.
C18_ClippedOverlap ==
    (/\ op = "add_interval"
     /\ call.start_limit <= call.end_limit
     /\ call.start_time <= call.end_limit
     /\ PeriodEnd >= call.start_limit)
        => res.duration = Smaller(PeriodEnd, call.end_limit)
                            - Greater(call.start_time, call.start_limit)

\* C19: a period that starts before the window and ends inside it counts
\* end - start_limit; a period that starts inside the window and ends after
\* it counts end_limit - start; and when that overlap is longer than a
\* point the count is more than zero and less than the whole period.
C19_PartialOverlap ==
    (op = "add_interval" /\ call.start_limit <= call.end_limit) =>
        /\ (/\ call.start_time < call.start_limit
            /\ PeriodEnd >= call.start_limit
            /\ PeriodEnd <= call.end_limit)
              => /\ res.duration = PeriodEnd - call.start_limit
                 /\ PeriodEnd > call.start_limit
                      => (0 < res.duration
                          /\ res.duration < PeriodEnd - call.start_time)
        /\ (/\ call.start_time >= call.start_limit
            /\ call.start_time <= call.end_limit
            /\ PeriodEnd > call.end_limit)
              => /\ res.duration = call.end_limit - call.start_time
                 /\ call.start_time < call.end_limit
                      => (0 < res.duration
                          /\ res.duration < PeriodEnd - call.start_time)

\* add_interval has clipped a running period that started before the window
\* and reaches into it
C19_Witness ==
    /\ op = "add_interval"
    /\ is_none(call.end_time)
    /\ call.start_time < call.start_limit
    /\ now > call.start_limit /\ now < call.end_limit
    /\ res.duration = now - call.start_limit

\* add_interval has clipped a closed period that started inside the window
\* and ends after it
C19_WitnessEnd ==
    /\ op = "add_interval"
    /\ is_some(call.end_time)
    /\ call.start_time > call.start_limit /\ call.start_time < call.end_limit
    /\ unwrap(call.end_time) > call.end_limit
    /\ res.duration = call.end_limit - call.start_time

\* the window of the report that was called
CallWindow == Window(call, now, now)

\* the period x lies outside the window of the call: it ends (a running
\* one: at the time of the call) before start_limit or starts after end_limit
Disjoint(x) ==
    \/ (IF is_some(x.end_time) THEN unwrap(x.end_time) ELSE now) < CallWindow.start_limit
    \/ x.start_time > CallWindow.end_limit

\* every period of project p in the store lies outside the window
AllDisjoint(p) ==
    \A i \in 1 .. Len(periods) : periods[i].project = p => Disjoint(periods[i])

C20_WitnessOpen ==
    /\ op = "report" /\ res = Ok /\ CallWindow.limited
    /\ CallWindow.start_limit <= CallWindow.end_limit
    /\ Tracking(periods) /\ Disjoint(Last(periods))
    /\ Last(periods).start_time < now
    /\ report_results(periods, call, now, now, now).results = <<>>

\* ---------------------------------------------------------------- C21
\* the trailing window a report was asked for: the number of units and the
\* length of the unit, years before months before weeks before days
Trailing(a) ==
    a.past_years > 0 \/ a.past_months > 0 \/ a.past_weeks > 0 \/ a.past_days > 0
TrailingLength(a) ==
    IF a.past_years > 0 THEN a.past_years * 365 * TicksPerDay
    ELSE IF a.past_months > 0 THEN a.past_months * 31 * TicksPerDay
    ELSE IF a.past_weeks > 0 THEN a.past_weeks * 7 * TicksPerDay
    ELSE a.past_days * TicksPerDay

\* what report lists under the readings it made, and under one reading
ListedReads == report_results(periods, call.args, now, call.limit_now, call.end_now).results
ListedOnce == report_results(periods, call.args, now, now, now).results

\* C21: a report over a trailing window of N units has the limits
\* now - N * unit (365, 31, 7 or 1 days) and now, and a running period ends
\* at the same now: it lists the projects, with the totals, that one reading
\* of the clock for the limits and for the end of the running period gives
\* (a total may differ by the time the report itself took).
C21_SameNow ==
    (op = "report" /\ res = Ok /\ Trailing(call.args)) =>
        /\ Len(ListedReads) = Len(ListedOnce)
        /\ \A i \in 1 .. Len(ListedOnce) :
              /\ ListedReads[i][1] = ListedOnce[i][1]
              /\ ListedReads[i][2] - ListedOnce[i][2] \in 0 .. (call.end_now - now)

\* the start_limit alone is as the claim has it, whatever the readings
C21_StartLimit ==
    (op = "report" /\ res = Ok /\ Trailing(call.args)) =>
        Window(call.args, now, call.limit_now).start_limit
            = now - TrailingLength(call.args)

\* a project running since before the window, left out of the report
\* because the clock advanced between the readings
C21_RunningLeftOut ==
    /\ op = "report" /\ res = Ok /\ Trailing(call.args)
    /\ Tracking(periods)
    /\ Last(periods).start_time < now - TrailingLength(call.args)
    /\ call.end_now > call.limit_now
    /\ ListedReads = <<>>
    /\ ListedOnce # <<>>

\* ---------------------------------------------------------------- C22
\* the total report lists for a project, 0 when it does not list it
RECURSIVE ListedTotal(_, _)
ListedTotal(results, project) ==
    IF results = <<>> THEN 0
    ELSE IF Head(results)[1] = project THEN Head(results)[2]
    ELSE ListedTotal(Tail(results), project)

RECURSIVE SumDurations(_, _, _)
\* the sum of the durations of the periods of a project, a running one
\* counted until t
SumDurations(ps, project, t) ==
    IF ps = <<>> THEN 0
    ELSE (IF Head(ps).project = project
          THEN (IF is_some(Head(ps).end_time) THEN unwrap(Head(ps).end_time) ELSE t)
               - Head(ps).start_time
          ELSE 0)
         + SumDurations(Tail(ps), project, t)

\* the report was asked for a range of dates, both given, and no trailing window
RangeCall ==
    /\ op = "report" /\ res = Ok /\ ~ Trailing(call)
    /\ is_some(call.from_date) /\ is_some(call.to_date)
    /\ unwrap(parse_from_str(unwrap(call.from_date)))
          <= unwrap(parse_from_str(unwrap(call.to_date)))

\* every period of the project is closed and lies within the day d
WithinDay(ps, project, d) ==
    \A i \in 1 .. Len(ps) :
        ps[i].project = project =>
            /\ is_some(ps[i].end_time)
            /\ date(ps[i].start_time) = d
            /\ date(unwrap(ps[i].end_time)) = d

\* C22: a report over the dates from_date .. to_date counts the day to_date
\* too: a project whose periods are all closed and lie within the day to_date
\* is listed with the sum of their durations.
C22_ToDateInclusive ==
    RangeCall =>
        \A project \in Projects :
            WithinDay(periods, project, unwrap(parse_from_str(unwrap(call.to_date)))) =>
                ListedTotal(report_results(periods, call, now, now, now).results, project)
                    = SumDurations(periods, project, now)

\* ---------------------------------------------------------------- C23
RECURSIVE TimeWithin(_, _, _, _, _)
\* the time of the periods of a project that lies between two limits, a
\* running period taken to end at t
TimeWithin(ps, project, start_limit, end_limit, t) ==
    IF ps = <<>> THEN 0
    ELSE (IF Head(ps).project = project
          THEN Greater(0, Smaller(IF is_some(Head(ps).end_time)
                                  THEN unwrap(Head(ps).end_time) ELSE t,
                                  end_limit)
                          - Greater(Head(ps).start_time, start_limit))
          ELSE 0)
         + TimeWithin(Tail(ps), project, start_limit, end_limit, t)

\* the total of a project within the window of the call, all its time when
\* there is no window
TotalWithin(project) ==
    IF CallWindow.limited
    THEN TimeWithin(periods, project, CallWindow.start_limit, CallWindow.end_limit, now)
    ELSE SumDurations(periods, project, now)

\* the names report lists, in the order of its lines
ListedNames ==
    LET r == report_results(periods, call, now, now, now).results
    IN  [i \in 1 .. Len(r) |-> r[i][1]]

\* C23: report lists exactly the projects whose total within the window is
\* not zero, each once, in ascending order of the name; a project whose
\* total is zero is not listed.
C23_ListsNonZero ==
    (op = "report" /\ res = Ok
     /\ (CallWindow.limited => CallWindow.start_limit <= CallWindow.end_limit)) =>
        ListedNames = SelectSeq(SortedProjects, LAMBDA p : TotalWithin(p) # 0)

\* the same for the reports in which no period contains the whole window
C23_ListsNonZeroUnlessSpanning ==
    (/\ op = "report" /\ res = Ok
     /\ (CallWindow.limited => CallWindow.start_limit <= CallWindow.end_limit)
     /\ CallWindow.limited =>
           \A i \in 1 .. Len(periods) :
              ~ (/\ periods[i].start_time < CallWindow.start_limit
                 /\ (IF is_some(periods[i].end_time)
                     THEN unwrap(periods[i].end_time) ELSE now) > CallWindow.end_limit)) =>
        ListedNames = SelectSeq(SortedProjects, LAMBDA p : TotalWithin(p) # 0)

\* ---------------------------------------------------------------- C24
\* the end of a period, a running one taken to end at t
EndOf(x, t) == IF is_some(x.end_time) THEN unwrap(x.end_time) ELSE t

\* the earliest date on which a period of the store starts and the latest
\* date on which one ends
EarliestStartDate(ps) ==
    CHOOSE d \in { date(ps[i].start_time) : i \in 1 .. Len(ps) } :
        \A i \in 1 .. Len(ps) : d <= date(ps[i].start_time)
LatestEndDate(ps, t) ==
    CHOOSE d \in { date(EndOf(ps[i], t)) : i \in 1 .. Len(ps) } :
        \A i \in 1 .. Len(ps) : d >= date(EndOf(ps[i], t))

\* the projects of the store with the sums of their durations, those with
\* the sum zero left out, in the order of the names
UnclippedTotals(ps, t) ==
    LET all == [i \in 1 .. Len(SortedProjects) |->
                   <<SortedProjects[i], SumDurations(ps, SortedProjects[i], t)>>]
    IN  SelectSeq(all, LAMBDA x : x[2] # 0)

\* the report was asked for without a window
NoWindowCall ==
    /\ op = "report" /\ res = Ok
    /\ ~ Trailing(call) /\ is_none(call.from_date) /\ is_none(call.to_date)

Count(ps, x) == Cardinality({ i \in 1 .. Len(ps) : ps[i] = x })

RECURSIVE SumOver(_, _, _)
\* the sum of the durations of the periods of the projects of a set
SumOver(projects, ps, t) ==
    IF projects = {} THEN 0
    ELSE LET p == CHOOSE q \in projects : TRUE
         IN  SumDurations(ps, p, t) + SumOver(projects \ {p}, ps, t)

\* C25: log has one block for every date on which a period starts and no
\* other, the blocks in ascending order of the date; every period is in the
\* block of the date of its start_time and in no other; and the total in the
\* header of a block is the sum of the durations of its periods, a running
\* period counted until now.
C25_LogBlocks ==
    op = "log" =>
        LET days == log_days(periods, now)
        IN  /\ res = Ok
            /\ message = Some(log_text(days, now))
            /\ { days[i].date : i \in 1 .. Len(days) }
                  = { date(periods[k].start_time) : k \in 1 .. Len(periods) }
            /\ \A i \in 1 .. (Len(days) - 1) : days[i].date < days[i + 1].date
            /\ \A k \in 1 .. Len(periods) : \A i \in 1 .. Len(days) :
                  Count(days[i].day, periods[k])
                     = IF days[i].date = date(periods[k].start_time)
                       THEN Count(periods, periods[k]) ELSE 0
            /\ \A i \in 1 .. Len(days) :
                  /\ \A j \in 1 .. Len(days[i].day) :
                        Count(periods, days[i].day[j]) > 0
                  /\ days[i].total
                        = SumOver(Projects, days[i].day, now)

\* log of a store with two periods that start on different dates, the first
\* one ending on a later date than it starts and the last one running
C25_Witness ==
    /\ op = "log"
    /\ Len(periods) = 2 /\ Tracking(periods)
    /\ date(periods[1].start_time) < date(unwrap(periods[1].end_time))
    /\ date(unwrap(periods[1].end_time)) < date(periods[2].start_time)
    /\ periods[2].start_time < now
    /\ Len(log_days(periods, now)) = 2

\* log of a store with two periods that start on the same date
C25_WitnessSameDay ==
    /\ op = "log"
    /\ Len(periods) = 2
    /\ date(periods[1].start_time) = date(periods[2].start_time)
    /\ periods[1].start_time < periods[2].start_time
    /\ Len(log_days(periods, now)) = 1

\* ---------------------------------------------------------------- C26
\* C26: within every block of log the lines are in ascending order of
\* start_time, whatever calls of the tracking methods made the store.
C26_LinesAscending ==
    op = "log" =>
        \A i \in 1 .. Len(log_days(periods, now)) :
            LET day == log_days(periods, now)[i].day
            IN  \A j \in 1 .. (Len(day) - 1) :
                    day[j].start_time <= day[j + 1].start_time

\* the same for the stores no call of edit has touched
C26_LinesAscendingNoEdit ==
    (op = "log"
     /\ \A i \in 1 .. (Len(periods) - 1) :
           periods[i].start_time <= periods[i + 1].start_time) =>
        \A i \in 1 .. Len(log_days(periods, now)) :
            LET day == log_days(periods, now)[i].day
            IN  \A j \in 1 .. (Len(day) - 1) :
                    day[j].start_time <= day[j + 1].start_time

\* ---------------------------------------------------------------- C27
\* a number in two columns, a number below ten after the fill character
Padded(n, fill) == IF n < 10 THEN fill \o ToString(n) ELSE ToString(n)

\* the text of t seconds in the three forms of the claim
Rendered(t, fill) ==
    IF t < 60 THEN ToString(t) \o "s"
    ELSE IF t < 3600
         THEN ToString(t \div 60) \o "m " \o Padded(t % 60, fill) \o "s"
    ELSE ToString(t \div 3600) \o "h " \o Padded((t \div 60) % 60, fill) \o "m "
         \o Padded(t % 60, fill) \o "s"

\* C27 as stated: seconds alone below a minute, minutes and seconds below an
\* hour, hours, minutes and seconds from an hour on, the minutes and seconds
\* after a larger unit padded with a zero to two digits.
C27_ZeroPadded ==
    op = "duration" => message = Some(Rendered(call.secs, "0"))

\* C27: for every duration of t whole seconds, t >= 0, the text is t alone
\* when t < 60, t div 60 and t mod 60 when 60 <= t < 3600, and t div 3600,
\* (t div 60) mod 60 and t mod 60 otherwise; the minutes and seconds after a
\* larger unit are right-aligned in two columns, padded with a space; the
\* hours go past 24 and there is no unit of days.
C27_SpacePadded ==
    op = "duration" => message = Some(Rendered(call.secs, " "))

\* a duration of more than a day, with one-digit minutes and seconds
C27_Witness ==
    /\ op = "duration"
    /\ call.secs = 25 * 3600 + 61
    /\ message = Some("25h  1m  1s")

\* ---------------------------------------------------------------- C28
\* the invocation was one of the failures of the claim: start while a
\* project is tracked, stop, cancel or amend with nothing tracked, restart
\* with no history, delete of a project the store does not have, status with
\* no running project and no flag
FailingInvocation ==
    \/ call.subcommand = "start" /\ Tracking(call.pre)
    \/ call.subcommand \in {"stop", "cancel", "amend"} /\ ~ Tracking(call.pre)
    \/ call.subcommand = "restart" /\ call.pre = <<>>
    \/ call.subcommand = "delete" /\ ~ HasProject(call.pre, call.project)
    \/ /\ call.subcommand = "status" /\ ~ Tracking(call.pre)
       /\ ~ call.simple_name /\ ~ call.simple_time

\* C28: an invocation whose operation fails ends with the exit code 1, and
\* an invocation that succeeds ends with the exit code 0.
C28_ExitCodes ==
    op = "main" =>
        /\ FailingInvocation => res.exit = 1
        /\ ~ res.failed => res.exit = 0

\* what main.rs does: every invocation that does not panic ends with 0, and
\* each of the failures of the claim writes its error to stderr
C28_AlwaysZero ==
    op = "main" =>
        /\ res.exit = 0
        /\ FailingInvocation => res.failed

\* ---------------------------------------------------------------- C29
\* the last call was edit with neither argument
EditNoArgsCall == op = "edit" /\ is_none(call.start_arg) /\ is_none(call.end_arg)

\* C29: edit with neither a start nor an end leaves the in-memory sequence
\* as it is and does not save: the data file and the backup file are after
\* the call what they were before it, whether the editor step succeeds or
\* fails.
C29_EditNoArgsFrame ==
    [][EditNoArgsCall' =>
          /\ UNCHANGED <<periods, disk, backup>>
          /\ ~ call'.saved
          /\ res' \in {Ok, EditorError}]_vars

\* edit with no argument has failed in the editor step, on an instance that
\* differs from its data file, with a backup that differs from the data file
C29_Witness ==
    /\ EditNoArgsCall /\ res = EditorError
    /\ periods # <<>>
    /\ disk # to_string(periods)
    /\ backup # None /\ backup # Some(disk)

\* the same when the editor step has succeeded
C29_WitnessOk ==
    /\ EditNoArgsCall /\ res = Ok
    /\ periods # <<>>
    /\ disk # to_string(periods)
    /\ backup # None /\ backup # Some(disk)

\* ---------------------------------------------------------------- C30
\* the last call was stop, cancel or amend on a store whose last period is
\* closed, and it failed
FailedOnClosed ==
    /\ op \in {"stop", "cancel", "amend"}
    /\ res = NothingTrackedError
    /\ call.pre # <<>> /\ is_some(Last(call.pre).end_time)

\* C30: a stop, cancel or amend that fails because the last period is closed
\* leaves the in-memory sequence as it found it.
C30_FailureKeepsStore ==
    FailedOnClosed => periods = call.pre

\* the second half of C30: a start that succeeds right after such a failure
\* saves a store that still has the closed period
C30_LaterSaveKeeps ==
    [][(FailedOnClosed /\ op' = "start" /\ res' = Ok) =>
          \E i \in 1 .. Len(periods') : periods'[i] = Last(call.pre)]_vars

\* what the code does: the failed call has removed the closed period from
\* the in-memory sequence
C30_FailureDropsLast ==
    FailedOnClosed => periods = Front(call.pre)

\* ---------------------------------------------------------------- C31
\* the last call was edit with a start that parses and an end that does not
EditBadEnd ==
    /\ op = "edit"
    /\ is_some(call.start_arg) /\ ~ Unparsable(call.start_arg)
    /\ Unparsable(call.end_arg)

\* C31: an edit that fails because its end does not parse while its start
\* does changes neither the data file nor the last period in memory.
C31_FailedEditKeepsStore ==
    (EditBadEnd /\ res # Ok) =>
        /\ disk = call.preDisk
        /\ periods = call.pre

\* what the code does: the call fails and does not save, and the last period
\* in memory has the parsed start
C31_FailedEditAppliesStart ==
    (EditBadEnd /\ call.pre # <<>>) =>
        /\ res = DateParseError
        /\ disk = call.preDisk /\ ~ call.saved
        /\ periods = [call.pre EXCEPT ![Len(call.pre)].start_time = Parsed(call.start_arg)]

\* ---------------------------------------------------------------- C32
\* C32: status, log and report leave the in-memory sequence, the data file
\* and the backup file as they are, for every store and all arguments,
\* whether they succeed or fail.
C32_QueriesFrame ==
    [][op' \in {"status", "log", "report"} =>
          UNCHANGED <<periods, disk, backup>>]_vars

\* report has failed on an instance that has periods and differs from its
\* data file, with a backup that differs from the data file
C32_Witness ==
    /\ op = "report" /\ res = ParseError
    /\ periods # <<>> /\ disk # to_string(periods)
    /\ backup # None /\ backup # Some(disk)

\* status has failed, and log has run, on such an instance
C32_WitnessStatus ==
    /\ op = "status" /\ res = NothingTrackedError
    /\ periods # <<>> /\ backup # None /\ backup # Some(disk)
C32_WitnessLog ==
    /\ op = "log" /\ res = Ok
    /\ Tracking(periods) /\ backup # None /\ backup # Some(disk)

\* ---------------------------------------------------------------- C33
\* a step from a successful start to a successful cancel, nothing between
StartThenCancel ==
    /\ op = "start" /\ res = Ok
    /\ op' = "cancel" /\ res' = Ok

\* C33 as stated: a successful start followed at once by a successful cancel
\* leaves the in-memory sequence and the data file equal to what they were
\* before the start.
C33_StartCancelAsStated ==
    [][StartThenCancel =>
          /\ periods' = call.pre
          /\ disk' = call.preDisk]_vars

\* C33: a successful start followed at once by a successful cancel leaves
\* the in-memory sequence equal to what it was before the start, and the
\* data file holding the serialization of that sequence: the content it had
\* before the start whenever it held that serialization then.
C33_StartCancel ==
    [][StartThenCancel =>
          /\ periods' = call.pre
          /\ disk' = to_string(call.pre)
          /\ (call.preDisk = to_string(call.pre) => disk' = call.preDisk)]_vars

\* cancel has succeeded on a store of two periods that start had appended
\* the running one to, and the data file is again what it was two saves
\* before
C33_Witness ==
    /\ op = "cancel" /\ res = Ok
    /\ Len(call.pre) = 2 /\ Len(periods) = 1
    /\ Last(call.pre).start_time = now
    /\ disk = to_string(periods)
    /\ backup = Some(call.preDisk)
    /\ call.preDisk = to_string(call.pre)

\* ---------------------------------------------------------------- C34
\* the two dates of the header of the report of the last call
HeaderDates == report_results(periods, call, now, now, now)

\* C34: the header of every report has a start date that is not later than
\* its end date, for every store and every window.
C34_HeaderOrdered ==
    (op = "report" /\ res = Ok) =>
        /\ HeaderDates.start_date <= HeaderDates.end_date
        /\ message = report(periods, call, now, now, now).message

\* what the code does when no period is counted: the header runs from today
\* to the day 0001-01-01
C34_HeaderWhenNothingCounted ==
    (/\ op = "report" /\ res = Ok
     /\ \A i \in 1 .. Len(periods) :
           CallWindow.limited /\ Disjoint(periods[i])) =>
        /\ HeaderDates.start_date = date(now)
        /\ HeaderDates.end_date = 0


\* ---- C35: after settings(path) with a new data directory, whatever the
\* call returned, the instance constructed next from the same settings
\* folder loads the sequence of periods the store held before the call
\* (a construction that could not open the settings file apart).
C35_SettingsKeepsPeriods ==
    [][(op = "settings" /\ call.fresh /\ op' = "new" /\ res' # IOError)
       => (res' = Ok /\ periods' = call.pre)]_vars

\* what the code does: once settings(path) has saved the settings, they name
\* a directory without a data file, the save of the periods fails on the
\* backup copy, and the next instance that loads finds no period
C35_NewDirectoryLoadsNothing ==
    [][(op = "settings" /\ call.fresh /\ call.saved /\ op' = "new" /\ res' = Ok)
       => (res = IOError /\ periods' = <<>>)]_vars

\* C35 for the constructions that succeed: the periods loaded are those the
\* store held before the call of settings
C35_LoadedPeriodsKept ==
    [][(op = "settings" /\ call.fresh /\ op' = "new" /\ res' = Ok)
       => periods' = call.pre]_vars

\* ---- C36: Settings::save followed by Settings::new on the same folder
\* returns an equal settings value, whatever the settings file held before
\* the save.
C36_SaveThenNew ==
    [][(op = "settings" /\ call.saved /\ op' = "new" /\ res' # IOError)
       => (res' = Ok /\ data_location' = data_location)]_vars

\* what the code does: the round trip holds when the serialization saved is
\* at least as long as the content it is written over
C36_SaveThenNewNotShorter ==
    [][(op = "settings" /\ call.saved /\ op' = "new" /\ res' # IOError
        /\ Len(settings_json) = Len(settings_to_string(data_location)))
       => (res' = Ok /\ data_location' = data_location)]_vars


\* ---- C37: the functions start, stop, cancel, restart, amend and delete of
\* main.rs and the methods of the same names of Doug, on the same loaded
\* sequence at the same time, fail in the same cases and on success write
\* the same sequence of periods to the data file.
TrackingFunctions == {"start", "stop", "cancel", "restart", "amend", "delete"}

\* the method of Doug of that name, up to its call of save
Method(name, project, ps, t) ==
    CASE name = "start" -> start(ps, project, t)
      [] name = "stop" -> stop(ps, t)
      [] name = "cancel" -> cancel(ps)
      [] name = "restart" -> restart(ps, t)
      [] name = "amend" -> amend(ps, project)
      [] OTHER -> delete(ps, project)

TrackingRun == op = "main" /\ res.exit = 0 /\ call.subcommand \in TrackingFunctions

\* an invocation is a step that leaves the clock
C37_MainAsLibrary ==
    [][(TrackingRun' /\ now' = now) =>
        LET m == Method(call'.subcommand, call'.project, call'.pre, now)
        IN  /\ res'.failed <=> m.res # Ok
            /\ ~ res'.failed => (m.save /\ disk' = to_string(m.periods))]_vars

\* a function of main.rs that succeeded and wrote two periods, and one that
\* failed on a sequence that is not empty
C37_Witness ==
    TrackingRun /\ ~ res.failed /\ Len(periods) = 2 /\ call.subcommand = "restart"
C37_WitnessFailed ==
    TrackingRun /\ res.failed /\ call.pre # <<>> /\ call.subcommand = "stop"

====
